---- MODULE Spec2Model ----
(***************************************************************************)
(* Model of the office_templates PPTX renderer: the loop planner           *)
(* (office_renderer/loops.py, process_loops), the render and compose       *)
(* entry points (office_renderer/pptx.py) and the save gate at their end.  *)
(*                                                                         *)
(* A presentation is a sequence of slides, a slide a sequence of shapes.   *)
(* Python indices are 0-based: slide index i is slides[i + 1] here.        *)
(***************************************************************************)
EXTENDS Integers, Sequences, FiniteSets, TLC

\* Bounds of the model.
MaxPages == 4
MaxItems == 2
MaxTemplates == 2
MaxSpecs == 2
MaxElems == 2
MaxTags == 2
MaxSegs == 2
MaxObjs == 3
MaxGraphs == 2
MaxNodes == 2
MaxCoord == 200

NoName == "none"
NoItem == <<>>

(***************************************************************************)
(* Shapes.  A shape's text is abstracted to what the code reads from it:   *)
(* `start` is the (variable, collection) pair LOOP_START_PATTERN extracts  *)
(* (<<>> when the pattern does not match), `end` tells whether             *)
(* LOOP_END_PATTERN matches, `placeholder` is the name a {{ name }} tag    *)
(* in the text refers to (NoName when the text has no tag) and `shown` is  *)
(* the value a rendered tag was replaced by (NoItem when none was).        *)
(***************************************************************************)
Shape(st, en, ph) == [start |-> st, end |-> en, placeholder |-> ph, shown |-> NoItem]

StartUsers == Shape(<<"user", "users">>, FALSE, NoName)
StartItems == Shape(<<"item", "items">>, FALSE, NoName)
EndShape   == Shape(<<>>, TRUE, NoName)
PlainShape == Shape(<<>>, FALSE, NoName)
UserShape  == Shape(<<>>, FALSE, "user")

\* extract_loop_directive: the (variable, collection) of a shape's text.
extract_loop_directive(shape) == shape.start

is_loop_start(shape) == Len(extract_loop_directive(shape)) = 2

is_loop_end(shape) == shape.end

SeqsUpTo(S, n) == UNION { [1..k -> S] : k \in 1..n }

(***************************************************************************)
(* The caller's context.  `users` and `items` are what resolving these     *)
(* collection expressions yields (an exception, None, a value that is not  *)
(* iterable, or a list); `user` is the value bound to the name "user"      *)
(* (NoItem when the context has no such key).                              *)
(***************************************************************************)
\* The list of the first n elements of a collection; element k is <<name, k>>.
ListOf(name, n) == [k \in 1..n |-> <<name, k>>]

Outcome(kind, items) == [kind |-> kind, items |-> items]

FailOutcomes == { Outcome("raise", <<>>), Outcome("none", <<>>), Outcome("noniter", <<>>) }

UsersOutcomes == FailOutcomes \cup { Outcome("list", ListOf("users", n)) : n \in 0..MaxItems }
ItemsOutcomes == { Outcome("list", ListOf("items", MaxItems)) }
AmbientUser == <<"context", 1>>

Contexts(ambient) ==
    { [users |-> u, items |-> t, user |-> a] :
        u \in UsersOutcomes, t \in ItemsOutcomes, a \in ambient }

resolve_tag(collection, ctx) == IF collection = "users" THEN ctx.users ELSE ctx.items

VARIABLES
    prs,                    \* prs.slides, the slides of the presentation
    context,                \* the caller's context
    pc,                     \* position in render_pptx / process_loops
    i,                      \* index of the enumerate loops of process_loops
    in_loop,
    loop_start_index,
    loop_variable,
    loop_collection,
    loop_sections,
    errors,
    slides_to_process,
    current_slide_number,
    slide_index,            \* index of the work item / slide spec being processed
    saved,                  \* number of calls of prs.save
    result,                 \* the (output, errors) pair returned
    template_files,         \* compose_pptx: the templates
    slides,                 \* compose_pptx: the slide specifications
    global_context,         \* compose_pptx: the global context
    text,                   \* process_text: the text (enforce_permissions: its value)
    request_user,           \* process_text / enforce_permissions: the user
    check_permissions,      \* process_text / enforce_permissions: the flag
    mode,                   \* process_text: "normal" or "table"
    returned,               \* what the call returned or raised
    expr,                   \* resolve_tag_expression: the segments of the expression
    entry,                  \* the function the expression was handed to
    root,                   \* resolve_tag_expression: the context
    current,                \* resolve_tag_expression: the value reached so far
    position,               \* resolve_tag_expression: index of the next segment
    outcome,                \* what the resolution returned or raised
    work,                   \* attribute lookups and callable invocations so far
    graphs,                 \* compose_graphs_pptx: the graphs
    slide_width,            \* base_prs.slide_width, in tenths of an inch
    slide_height            \* base_prs.slide_height, in tenths of an inch

plan_vars == << i, in_loop, loop_start_index, loop_variable, loop_collection,
                loop_sections, slides_to_process, current_slide_number >>

compose_vars == << template_files, slides, global_context >>

text_vars == << text, request_user, check_permissions, mode, returned >>

resolve_vars == << expr, entry, root, current, position, outcome, work >>

graph_vars == << graphs, slide_width, slide_height >>

vars == << prs, context, pc, errors, plan_vars, slide_index, saved, result, compose_vars,
          text_vars, resolve_vars, graph_vars >>

Error(msg, n) == [msg |-> msg, slide |-> n]

(***************************************************************************)
(* First pass, the shapes of one slide (loops.py 88-108).                  *)
(***************************************************************************)
ScanInit == [has_loop_start |-> FALSE, has_loop_end |-> FALSE,
             loop_start_var |-> NoName, loop_start_collection |-> NoName,
             loop_start_shapes |-> 0, errs |-> <<>>]

ScanShape(acc, shape, inl, idx) ==
    LET a1 == IF is_loop_start(shape)
              THEN [acc EXCEPT !.loop_start_shapes = @ + 1,
                               !.has_loop_start = TRUE,
                               !.loop_start_var = extract_loop_directive(shape)[1],
                               !.loop_start_collection = extract_loop_directive(shape)[2]]
              ELSE acc
    IN  IF is_loop_end(shape)
        THEN [a1 EXCEPT !.has_loop_end = TRUE,
                        !.errs = IF ~inl /\ ~a1.has_loop_start
                                 THEN Append(@, Error("endloop_without_start", idx + 1))
                                 ELSE @]
        ELSE a1

RECURSIVE ScanShapes(_, _, _, _, _)
ScanShapes(shapes, k, acc, inl, idx) ==
    IF k > Len(shapes) THEN acc
    ELSE ScanShapes(shapes, k + 1, ScanShape(acc, shapes[k], inl, idx), inl, idx)

(***************************************************************************)
(* First pass, one slide (loops.py 86-144): the planner state after the    *)
(* slide at index idx, from the planner state `st` before it.              *)
(***************************************************************************)
Planner(inl, start, var, coll, secs, errs) ==
    [in_loop |-> inl, loop_start_index |-> start, loop_variable |-> var,
     loop_collection |-> coll, loop_sections |-> secs, errors |-> errs]

Section(s, e, var, coll) ==
    [start_index |-> s, end_index |-> e, variable |-> var, collection |-> coll]

OpenLoop(st, sc, idx) ==
    [st EXCEPT !.in_loop = TRUE, !.loop_start_index = idx,
               !.loop_variable = sc.loop_start_var,
               !.loop_collection = sc.loop_start_collection]

\* Faulty variant of CloseLoop: the bounds of the section are swapped.
CloseLoop_SwapsBounds(st, sc, idx) ==
    IF sc.has_loop_end /\ st.in_loop
    THEN [st EXCEPT !.loop_sections =
                        Append(@, Section(idx, st.loop_start_index,
                                          st.loop_variable, st.loop_collection)),
                    !.in_loop = FALSE, !.loop_start_index = -1,
                    !.loop_variable = NoName, !.loop_collection = NoName]
    ELSE st

\* Faulty variant of CloseLoop: the loop state is not reset.
CloseLoop_StaysOpen(st, sc, idx) ==
    IF sc.has_loop_end /\ st.in_loop
    THEN [st EXCEPT !.loop_sections =
                        Append(@, Section(st.loop_start_index, idx,
                                          st.loop_variable, st.loop_collection))]
    ELSE st

CloseLoop(st, sc, idx) ==
    IF sc.has_loop_end /\ st.in_loop
    THEN [st EXCEPT !.loop_sections =
                        Append(@, Section(st.loop_start_index, idx,
                                          st.loop_variable, st.loop_collection)),
                    !.in_loop = FALSE, !.loop_start_index = -1,
                    !.loop_variable = NoName, !.loop_collection = NoName]
    ELSE st

\* Faulty variant of ScanStep: a start marker met inside a loop is reported
\* only after the loop variables were assigned.
ScanStep_NestedOverwrites(st, shapes, idx) ==
    LET sc == ScanShapes(shapes, 1, ScanInit, st.in_loop, idx)
        s0 == [st EXCEPT !.errors = @ \o sc.errs]
    IN  IF sc.loop_start_shapes > 1
        THEN [s0 EXCEPT !.errors = Append(@, Error("multiple_loop_start", idx + 1))]
        ELSE IF sc.has_loop_start /\ sc.has_loop_end
        THEN [s0 EXCEPT !.errors = Append(@, Error("both_start_and_end", idx + 1))]
        ELSE IF sc.has_loop_start
        THEN IF s0.in_loop
             THEN [OpenLoop(s0, sc, idx) EXCEPT
                      !.errors = Append(@, Error("nested_loops", idx + 1))]
             ELSE CloseLoop(OpenLoop(s0, sc, idx), sc, idx)
        ELSE CloseLoop(s0, sc, idx)

\* Faulty variant of ScanStep: a slide with both markers is not rejected.
ScanStep_AllowsBoth(st, shapes, idx) ==
    LET sc == ScanShapes(shapes, 1, ScanInit, st.in_loop, idx)
        s0 == [st EXCEPT !.errors = @ \o sc.errs]
    IN  IF sc.loop_start_shapes > 1
        THEN [s0 EXCEPT !.errors = Append(@, Error("multiple_loop_start", idx + 1))]
        ELSE IF sc.has_loop_start
        THEN IF s0.in_loop
             THEN [s0 EXCEPT !.errors = Append(@, Error("nested_loops", idx + 1))]
             ELSE CloseLoop(OpenLoop(s0, sc, idx), sc, idx)
        ELSE CloseLoop(s0, sc, idx)

ScanStep(st, shapes, idx) ==
    LET sc == ScanShapes(shapes, 1, ScanInit, st.in_loop, idx)
        s0 == [st EXCEPT !.errors = @ \o sc.errs]
    IN  IF sc.loop_start_shapes > 1
        THEN [s0 EXCEPT !.errors = Append(@, Error("multiple_loop_start", idx + 1))]
        ELSE IF sc.has_loop_start /\ sc.has_loop_end
        THEN [s0 EXCEPT !.errors = Append(@, Error("both_start_and_end", idx + 1))]
        ELSE IF sc.has_loop_start
        THEN IF s0.in_loop
             THEN [s0 EXCEPT !.errors = Append(@, Error("nested_loops", idx + 1))]
             ELSE CloseLoop(OpenLoop(s0, sc, idx), sc, idx)
        ELSE CloseLoop(s0, sc, idx)

PlannerNow ==
    Planner(in_loop, loop_start_index, loop_variable, loop_collection,
            loop_sections, errors)

ScanSlide ==
    /\ pc = "scan"
    /\ i < Len(prs)
    /\ LET st == ScanStep(PlannerNow, prs[i + 1], i)
       IN  /\ in_loop' = st.in_loop
           /\ loop_start_index' = st.loop_start_index
           /\ loop_variable' = st.loop_variable
           /\ loop_collection' = st.loop_collection
           /\ loop_sections' = st.loop_sections
           /\ errors' = st.errors
    /\ i' = i + 1
    /\ UNCHANGED << prs, context, pc, slides_to_process, current_slide_number,
                    slide_index, saved, result, compose_vars,
                    text_vars, resolve_vars, graph_vars >>

\* Faulty variant of CheckUnclosed: an open loop is not reported.
CheckUnclosed_Silent ==
    /\ pc = "scan"
    /\ i = Len(prs)
    /\ pc' = "expand"
    /\ UNCHANGED << prs, context, errors, plan_vars, slide_index, saved, result,
                    compose_vars, text_vars, resolve_vars, graph_vars >>

\* loops.py 146-148: the unclosed-loop check after the first pass.
CheckUnclosed ==
    /\ pc = "scan"
    /\ i = Len(prs)
    /\ errors' = IF in_loop THEN Append(errors, Error("loop_never_closed", 0)) ELSE errors
    /\ pc' = "expand"
    /\ UNCHANGED << prs, context, plan_vars, slide_index, saved, result, compose_vars,
                    text_vars, resolve_vars, graph_vars >>

(***************************************************************************)
(* Second pass (loops.py 160-233).  A work item is a dict; its absent      *)
(* loop_var / loop_item keys are NoName / NoItem.                          *)
(***************************************************************************)
Item(j, num, var, item) ==
    [slide |-> j, slide_number |-> num, loop_var |-> var, loop_item |-> item]

\* loops.py 177-182: the slides of a section appended as regular slides.
RECURSIVE RegularSlides(_, _, _, _)
RegularSlides(j, last, out, num) ==
    IF j > last THEN [out |-> out, num |-> num]
    ELSE RegularSlides(j + 1, last, Append(out, Item(j, num, NoName, NoItem)), num + 1)

\* loops.py 214-223: the slides of a section for one loop item.
RECURSIVE ReplicaSlides(_, _, _, _, _, _)
ReplicaSlides(j, last, var, item, out, num) ==
    IF j > last THEN [out |-> out, num |-> num]
    ELSE ReplicaSlides(j + 1, last, var, item,
                       Append(out, Item(j, num, var, item)), num + 1)

\* loops.py 213-223: every item of the collection in turn.
RECURSIVE ExpandItems(_, _, _, _, _)
ExpandItems(items, k, section, out, num) ==
    IF k > Len(items) THEN [out |-> out, num |-> num]
    ELSE LET r == ReplicaSlides(section.start_index, section.end_index,
                                section.variable, items[k], out, num)
         IN  ExpandItems(items, k + 1, section, r.out, r.num)

\* Faulty variant of ExpandSection: the last item of the collection is left out.
ExpandSection_DropsLast(section, idx, ctx, acc) ==
    LET value == resolve_tag(section.collection, ctx)
        plain == RegularSlides(section.start_index, section.end_index, acc.out, acc.num)
        failed(msg) == [acc EXCEPT !.errs = Append(@, Error(msg, idx + 1)),
                                   !.out = plain.out, !.num = plain.num,
                                   !.stop = FALSE]
    IN  IF value.kind = "raise" THEN failed("failed_to_resolve_collection")
        ELSE IF value.kind = "none" THEN failed("collection_not_found")
        ELSE IF value.kind = "noniter" THEN failed("not_iterable")
        ELSE LET r == ExpandItems(SubSeq(value.items, 1, Len(value.items) - 1), 1,
                                  section, acc.out, acc.num)
             IN  [acc EXCEPT !.out = r.out, !.num = r.num, !.stop = TRUE]

\* Faulty variant of ExpandSection: a section whose collection cannot be
\* used is skipped without emitting its slides.
ExpandSection_SkipsFailed(section, idx, ctx, acc) ==
    LET value == resolve_tag(section.collection, ctx)
        failed(msg) == [acc EXCEPT !.errs = Append(@, Error(msg, idx + 1)),
                                   !.stop = FALSE]
    IN  IF value.kind = "raise" THEN failed("failed_to_resolve_collection")
        ELSE IF value.kind = "none" THEN failed("collection_not_found")
        ELSE IF value.kind = "noniter" THEN failed("not_iterable")
        ELSE LET r == ExpandItems(value.items, 1, section, acc.out, acc.num)
             IN  [acc EXCEPT !.out = r.out, !.num = r.num, !.stop = TRUE]

\* loops.py 169-223: the section that starts at the current slide.
ExpandSection(section, idx, ctx, acc) ==
    LET value == resolve_tag(section.collection, ctx)
        plain == RegularSlides(section.start_index, section.end_index, acc.out, acc.num)
        failed(msg) == [acc EXCEPT !.errs = Append(@, Error(msg, idx + 1)),
                                   !.out = plain.out, !.num = plain.num,
                                   !.stop = FALSE]
    IN  IF value.kind = "raise" THEN failed("failed_to_resolve_collection")
        ELSE IF value.kind = "none" THEN failed("collection_not_found")
        ELSE IF value.kind = "noniter" THEN failed("not_iterable")
        ELSE LET r == ExpandItems(value.items, 1, section, acc.out, acc.num)
             IN  [acc EXCEPT !.out = r.out, !.num = r.num, !.stop = TRUE]

\* loops.py 164-225: the loop over the sections for the slide at index idx.
RECURSIVE ForSections(_, _, _, _, _)
ForSections(sections, k, idx, ctx, acc) ==
    IF k > Len(sections) \/ acc.stop THEN acc
    ELSE LET section == sections[k]
         IN  IF section.start_index <= idx /\ idx <= section.end_index
             THEN LET a1 == [acc EXCEPT !.is_loop_slide = TRUE]
                      a2 == IF idx = section.start_index
                            THEN ExpandSection(section, idx, ctx, a1)
                            ELSE [a1 EXCEPT !.stop = TRUE]
                  IN  ForSections(sections, k + 1, idx, ctx, a2)
             ELSE ForSections(sections, k + 1, idx, ctx, acc)

\* Faulty variant of ExpandStep: a slide outside the loops that recorded an
\* error is left out.
ExpandStep_SkipsErrorSlides(sections, idx, ctx, out, num, errs) ==
    LET acc == ForSections(sections, 1, idx, ctx,
                           [is_loop_slide |-> FALSE, stop |-> FALSE,
                            out |-> out, num |-> num, errs |-> errs])
    IN  IF acc.is_loop_slide \/ \E q \in 1..Len(errs) : errs[q].slide = idx + 1
        THEN acc
        ELSE [acc EXCEPT !.out = Append(@, Item(idx, acc.num, NoName, NoItem)),
                         !.num = @ + 1]

\* Faulty variant of ExpandStep: a slide outside the loops is put in front of
\* the slides emitted so far.
ExpandStep_Prepends(sections, idx, ctx, out, num, errs) ==
    LET acc == ForSections(sections, 1, idx, ctx,
                           [is_loop_slide |-> FALSE, stop |-> FALSE,
                            out |-> out, num |-> num, errs |-> errs])
    IN  IF acc.is_loop_slide
        THEN acc
        ELSE [acc EXCEPT !.out = << Item(idx, acc.num, NoName, NoItem) >> \o @,
                         !.num = @ + 1]

\* Faulty variant of ExpandStep: the slide number is not advanced after a
\* slide outside the loops.
ExpandStep_KeepsNumber(sections, idx, ctx, out, num, errs) ==
    LET acc == ForSections(sections, 1, idx, ctx,
                           [is_loop_slide |-> FALSE, stop |-> FALSE,
                            out |-> out, num |-> num, errs |-> errs])
    IN  IF acc.is_loop_slide
        THEN acc
        ELSE [acc EXCEPT !.out = Append(@, Item(idx, acc.num, NoName, NoItem))]

\* loops.py 161-233: one iteration of the second enumerate loop.
ExpandStep(sections, idx, ctx, out, num, errs) ==
    LET acc == ForSections(sections, 1, idx, ctx,
                           [is_loop_slide |-> FALSE, stop |-> FALSE,
                            out |-> out, num |-> num, errs |-> errs])
    IN  IF acc.is_loop_slide
        THEN acc
        ELSE [acc EXCEPT !.out = Append(@, Item(idx, acc.num, NoName, NoItem)),
                         !.num = @ + 1]

\* loops.py 161-233: the second enumerate loop, from the slide at index idx on.
RECURSIVE ExpandFrom(_, _, _, _, _, _, _)
ExpandFrom(idx, n, sections, ctx, out, num, errs) ==
    IF idx >= n THEN [out |-> out, num |-> num, errs |-> errs]
    ELSE LET r == ExpandStep(sections, idx, ctx, out, num, errs)
         IN  ExpandFrom(idx + 1, n, sections, ctx, r.out, r.num, r.errs)

\* loops.py 150-235: the second pass; process_loops returns slides_to_process.
ExpandSlides ==
    /\ pc = "expand"
    /\ LET r == ExpandFrom(0, Len(prs), loop_sections, context, <<>>, 1, errors)
       IN  /\ slides_to_process' = r.out
           /\ current_slide_number' = r.num
           /\ errors' = r.errs
    /\ pc' = "planned"
    /\ UNCHANGED << prs, context, i, in_loop, loop_start_index, loop_variable,
                    loop_collection, loop_sections, slide_index, saved, result, compose_vars,
                    text_vars, resolve_vars, graph_vars >>


(***************************************************************************)
(* render_pptx (pptx.py 40-91).                                            *)
(***************************************************************************)

\* pptx.py 64-72: the slide context of one work item.
SlideContext(ctx, slide_info) ==
    [user |-> IF slide_info.loop_var = "user" THEN slide_info.loop_item ELSE ctx.user,
     item |-> IF slide_info.loop_var = "item" THEN slide_info.loop_item ELSE NoItem,
     slide_number |-> slide_info.slide_number]

\* The value a name is bound to in a slide context (NoItem: no such key).
Lookup(slide_context, name) ==
    IF name = "user" THEN slide_context.user
    ELSE IF name = "item" THEN slide_context.item
    ELSE NoItem

\* process_paragraph on the text of one shape: the tag is replaced, in the
\* shape itself, by the value its name resolves to; a name the context does
\* not bind fails.
process_paragraph(shape, slide_context) ==
    IF shape.placeholder = NoName
    THEN [shape |-> shape, failed |-> FALSE]
    ELSE IF Lookup(slide_context, shape.placeholder) = NoItem
    THEN [shape |-> shape, failed |-> TRUE]
    ELSE [shape |-> [shape EXCEPT !.placeholder = NoName,
                                  !.shown = Lookup(slide_context, shape.placeholder)],
          failed |-> FALSE]

\* pptx.py 135-192 for a text shape: an exception of process_paragraph is
\* recorded in errors.
process_shape_content(shape, slide_context, slide_number) ==
    LET r == process_paragraph(shape, slide_context)
    IN  [shape |-> r.shape,
         errs |-> IF r.failed THEN << Error("error_in_paragraph", slide_number) >>
                  ELSE <<>>]

\* pptx.py 94-109: every shape of the slide but the loop directives.
RECURSIVE process_single_slide(_, _, _, _, _)
process_single_slide(shapes, k, slide_context, slide_number, errs) ==
    IF k > Len(shapes) THEN [shapes |-> shapes, errs |-> errs]
    ELSE IF is_loop_start(shapes[k]) \/ is_loop_end(shapes[k])
    THEN process_single_slide(shapes, k + 1, slide_context, slide_number, errs)
    ELSE LET r == process_shape_content(shapes[k], slide_context, slide_number)
         IN  process_single_slide([shapes EXCEPT ![k] = r.shape], k + 1,
                                  slide_context, slide_number, errs \o r.errs)

\* The slide object a work item refers to: loops.py 179, 191, 206, 218, 230
\* put prs.slides[j] itself in the work item.
SlideOf(slide_info) == slide_info.slide + 1

\* pptx.py 58-75: one iteration of the loop over slides_to_process.
RenderSlide ==
    /\ pc = "planned"
    /\ slide_index <= Len(slides_to_process)
    /\ LET slide_info == slides_to_process[slide_index]
           r == process_single_slide(prs[SlideOf(slide_info)], 1,
                                     SlideContext(context, slide_info),
                                     slide_info.slide_number, errors)
       IN  /\ prs' = [prs EXCEPT ![SlideOf(slide_info)] = r.shapes]
           /\ errors' = r.errs
    /\ slide_index' = slide_index + 1
    /\ UNCHANGED << context, pc, plan_vars, saved, result, compose_vars,
                    text_vars, resolve_vars, graph_vars >>

Result(output_is_none, errors_is_none, errs) ==
    [output_is_none |-> output_is_none, errors_is_none |-> errors_is_none,
     errors |-> errs]

\* Faulty variant of RenderAbort: the presentation is saved before the
\* errors are looked at.
RenderAbort_SavesFirst ==
    /\ pc = "planned"
    /\ slide_index > Len(slides_to_process)
    /\ errors # <<>>
    /\ saved' = saved + 1
    /\ result' = Result(TRUE, FALSE, errors)
    /\ pc' = "returned"
    /\ UNCHANGED << prs, context, errors, plan_vars, slide_index, compose_vars,
                    text_vars, resolve_vars, graph_vars >>

\* pptx.py 77-82: errors were recorded, nothing is saved.
RenderAbort ==
    /\ pc = "planned"
    /\ slide_index > Len(slides_to_process)
    /\ errors # <<>>
    /\ result' = Result(TRUE, FALSE, errors)
    /\ pc' = "returned"
    /\ UNCHANGED << prs, context, errors, plan_vars, slide_index, saved, compose_vars,
                    text_vars, resolve_vars, graph_vars >>

\* pptx.py 84-91: the presentation is saved and the output returned.
RenderSave ==
    /\ pc = "planned"
    /\ slide_index > Len(slides_to_process)
    /\ errors = <<>>
    /\ saved' = saved + 1
    /\ result' = Result(FALSE, TRUE, <<>>)
    /\ pc' = "returned"
    /\ UNCHANGED << prs, context, errors, plan_vars, slide_index, compose_vars,
                    text_vars, resolve_vars, graph_vars >>

(***************************************************************************)
(* compose_pptx (pptx.py 288-405).  A template is known by the number of   *)
(* its slide layouts and by whether it has a slide tagged as the layout    *)
(* "content"; a slide specification by its 'layout' key (NoName: no such   *)
(* key) and its 'user' key (NoItem: no such key).                          *)
(***************************************************************************)
Template(layouts, tagged) == [layouts |-> layouts, tagged |-> tagged]

TemplateKinds ==
    { Template(0, FALSE), Template(1, FALSE), Template(7, FALSE), Template(7, TRUE) }

SlideSpec(layout, user) == [layout |-> layout, user |-> user]

SlideSpecKinds ==
    { SlideSpec(l, u) : l \in {NoName, "Unknown", "Title", "content"},
                        u \in {NoItem, AmbientUser} }

\* pptx.py 195-234: the layout ids the templates provide.
build_layout_mapping(files) ==
    (IF \E t \in 1..Len(files) : files[t].layouts > 0 THEN {"Title"} ELSE {})
    \cup (IF \E t \in 1..Len(files) : files[t].tagged THEN {"content"} ELSE {})

\* pptx.py 374: slide_context = {**global_context, **slide_spec}.
MergeContext(gctx, slide_spec) ==
    [user |-> IF slide_spec.user # NoItem THEN slide_spec.user ELSE gctx.user,
     item |-> NoItem,
     slide_number |-> 0]

\* pptx.py 305-340: validation, the layout mapping and the blank base deck.
ComposeStart ==
    /\ pc = "compose"
    /\ IF template_files = <<>>
       THEN /\ errors' = Append(errors, Error("no_template_files", 0))
            /\ result' = Result(TRUE, FALSE, errors')
            /\ pc' = "returned"
            /\ prs' = prs
       ELSE IF slides = <<>>
       THEN /\ errors' = Append(errors, Error("no_slides_specified", 0))
            /\ result' = Result(TRUE, FALSE, errors')
            /\ pc' = "returned"
            /\ prs' = prs
       ELSE IF build_layout_mapping(template_files) = {}
       THEN /\ errors' = Append(errors, Error("no_layout_slides", 0))
            /\ result' = Result(TRUE, FALSE, errors')
            /\ pc' = "returned"
            /\ prs' = prs
       ELSE /\ prs' = <<>>
            /\ pc' = "compose_slides"
            /\ UNCHANGED << errors, result >>
    /\ UNCHANGED << context, plan_vars, slide_index, saved, compose_vars,
                    text_vars, resolve_vars, graph_vars >>

\* copy_slide_across_presentations: the tagged layout slide copied into the
\* base deck; the copy carries the shapes of the layout slide.
copy_slide_across_presentations(layout_item) == layout_item

\* pptx.py 343-384: one slide specification.  slide_index is 1-based here.
compose_slide(deck, errs, slide_spec, idx, files, gctx) ==
    LET failed(msg) == [prs |-> deck, errs |-> Append(errs, Error(msg, idx))]
        process(new_slide) ==
            LET r == process_single_slide(new_slide, 1, MergeContext(gctx, slide_spec),
                                          idx, errs)
            IN  [prs |-> Append(deck, r.shapes), errs |-> r.errs]
    IN  IF slide_spec.layout = NoName THEN failed("missing_layout_key")
        ELSE IF slide_spec.layout \notin build_layout_mapping(files)
        THEN failed("layout_not_found")
        ELSE IF slide_spec.layout = "content"
        THEN process(copy_slide_across_presentations(<< UserShape >>))
        ELSE IF files[1].layouts > 6 THEN process(<< PlainShape >>)
        ELSE IF files[1].layouts > 0 THEN process(<< PlainShape >>)
        ELSE failed("no_slide_layouts_in_base")

ComposeSlide ==
    /\ pc = "compose_slides"
    /\ slide_index <= Len(slides)
    /\ LET r == compose_slide(prs, errors, slides[slide_index], slide_index,
                              template_files, global_context)
       IN  /\ prs' = r.prs
           /\ errors' = r.errs
    /\ slide_index' = slide_index + 1
    /\ UNCHANGED << context, pc, plan_vars, saved, result, compose_vars,
                    text_vars, resolve_vars, graph_vars >>

\* pptx.py 386-392: errors were recorded, nothing is saved.
ComposeAbort ==
    /\ pc = "compose_slides"
    /\ slide_index > Len(slides)
    /\ errors # <<>>
    /\ result' = Result(TRUE, FALSE, errors)
    /\ pc' = "returned"
    /\ UNCHANGED << prs, context, errors, plan_vars, slide_index, saved, compose_vars,
                    text_vars, resolve_vars, graph_vars >>

\* pptx.py 394-401: the base deck is saved and the output returned.
ComposeSave ==
    /\ pc = "compose_slides"
    /\ slide_index > Len(slides)
    /\ errors = <<>>
    /\ saved' = saved + 1
    /\ result' = Result(FALSE, TRUE, <<>>)
    /\ pc' = "returned"
    /\ UNCHANGED << prs, context, errors, plan_vars, slide_index, compose_vars,
                    text_vars, resolve_vars, graph_vars >>

(***************************************************************************)
(* compose_pptx of the package office_renderer/pptx (pptx/compose.py       *)
(* 14-175).  It differs from compose_pptx of pptx.py in one step: before   *)
(* the slide context is merged, every value of the slide specification is  *)
(* run through process_text_recursive and stored back under its key.       *)
(***************************************************************************)
\* A value of a slide specification that is a template string.
UserTag == <<"{{ user }}", 0>>

\* The empty string a name the context lacks resolves to (parser.py 88-89).
ResolvedEmpty == <<"", 0>>

TemplatedSpecKinds ==
    { SlideSpec(l, u) : l \in {NoName, "Unknown", "Title", "content"},
                        u \in {NoItem, AmbientUser, UserTag} }

\* process_text_recursive: a template string is resolved against the
\* context (a name the context lacks resolves to the empty string); any
\* other value is returned as it is.
process_text_recursive(value, gctx) ==
    IF value = UserTag
    THEN IF gctx.user = NoItem THEN ResolvedEmpty ELSE gctx.user
    ELSE value

\* pptx/compose.py 132-136: slide_spec[key] = process_text_recursive(...) for
\* every key of the slide specification.
ProcessSlideSpec(slide_spec, gctx) ==
    [slide_spec EXCEPT !.user = IF @ = NoItem THEN @ ELSE process_text_recursive(@, gctx)]

\* pptx/compose.py 94-168: one slide specification; slide_spec is the
\* dictionary as the step leaves it.
compose_spec_slide(deck, errs, slide_spec, idx, files, gctx) ==
    LET failed(msg) == [prs |-> deck, errs |-> Append(errs, Error(msg, idx)),
                        slide_spec |-> slide_spec]
        process(new_slide) ==
            LET processed == ProcessSlideSpec(slide_spec, gctx)
                r == process_single_slide(new_slide, 1, MergeContext(gctx, processed),
                                          idx, errs)
            IN  [prs |-> Append(deck, r.shapes), errs |-> r.errs, slide_spec |-> processed]
    IN  IF slide_spec.layout = NoName THEN failed("missing_layout_key")
        ELSE IF slide_spec.layout \notin build_layout_mapping(files)
        THEN failed("layout_not_found")
        ELSE IF slide_spec.layout = "content"
        THEN process(copy_slide_across_presentations(<< UserShape >>))
        ELSE IF files[1].layouts > 6 THEN process(<< PlainShape >>)
        ELSE IF files[1].layouts > 0 THEN process(<< PlainShape >>)
        ELSE failed("no_slide_layouts_in_base")

ComposeSpecSlide ==
    /\ pc = "compose_slides"
    /\ slide_index <= Len(slides)
    /\ LET r == compose_spec_slide(prs, errors, slides[slide_index], slide_index,
                                   template_files, global_context)
       IN  /\ prs' = r.prs
           /\ errors' = r.errs
           /\ slides' = [slides EXCEPT ![slide_index] = r.slide_spec]
    /\ slide_index' = slide_index + 1
    /\ UNCHANGED << context, pc, plan_vars, saved, result, template_files, global_context,
                    text_vars, resolve_vars, graph_vars >>

(***************************************************************************)
(* The templating core: permission enforcement (templating/permissions.py) *)
(* and process_text (templating/core.py).                                  *)
(*                                                                         *)
(* A resolved object is known by whether it has a _meta attribute and by   *)
(* what request_user.has_perm("view", obj) answers for it: "plain" has no  *)
(* _meta, "granted" and "denied" have one; "empty" is the string "".  Its  *)
(* id tells the elements of a list apart.                                  *)
(***************************************************************************)
Obj(kind, id) == [kind |-> kind, id |-> id]

ObjKinds == { "plain", "granted", "denied" }

EmptyString == Obj("empty", 0)

NoUser == "None"
SomeUser == "request_user"

\* What resolve_tag_expression yields for a placeholder: a single object, a
\* list, or an exception.
Scalar(obj) == [type |-> "scalar", items |-> << obj >>]
ListValue(objs) == [type |-> "list", items |-> objs]
Raises == [type |-> "raise", items |-> <<>>]

ListsUpTo(n) ==
    UNION { { ListValue([k \in 1..m |-> Obj(kinds[k], k)]) : kinds \in [1..m -> ObjKinds] } :
              m \in 0..n }

TagValues ==
    { Raises } \cup { Scalar(Obj(kind, 1)) : kind \in ObjKinds } \cup ListsUpTo(MaxElems)

\* permissions.py 6-10.
is_django_object(obj) == obj.kind \in { "granted", "denied" }

\* request_user.has_perm("view", obj).
has_perm(obj) == obj.kind = "granted"

\* permissions.py 13-32.
has_view_permission(obj, user) ==
    IF user = NoUser THEN FALSE
    ELSE IF is_django_object(obj) THEN has_perm(obj)
    ELSE TRUE

\* core.py 6-16.
core_has_view_permission(obj, user) ==
    IF user = NoUser THEN FALSE
    ELSE IF is_django_object(obj) THEN has_perm(obj)
    ELSE FALSE

Select(objs, Test(_)) == SelectSeq(objs, Test)

Denied(tag) == [msg |-> "permission_denied", slide |-> tag]

\* Faulty variant of enforce_permissions: one error for each rejected element.
enforce_permissions_ErrorPerItem(value, raw_expr, errs, user, check) ==
    IF ~check \/ user = NoUser
    THEN [value |-> value, errors |-> errs]
    ELSE IF value.type = "list"
    THEN LET permitted(obj) == ~is_django_object(obj) \/ has_view_permission(obj, user)
             rejected(obj) == ~permitted(obj)
         IN  [value |-> ListValue(Select(value.items, permitted)),
              errors |-> errs \o [k \in 1..Len(Select(value.items, rejected)) |->
                                      Denied(raw_expr)]]
    ELSE IF is_django_object(value.items[1]) /\ ~has_view_permission(value.items[1], user)
    THEN [value |-> Scalar(EmptyString), errors |-> Append(errs, Denied(raw_expr))]
    ELSE [value |-> value, errors |-> errs]

\* Faulty variant of enforce_permissions: the flag check_permissions is not
\* looked at.
enforce_permissions_IgnoresFlag(value, raw_expr, errs, user, check) ==
    IF user = NoUser
    THEN [value |-> value, errors |-> errs]
    ELSE IF value.type = "list"
    THEN LET permitted(obj) == ~is_django_object(obj) \/ has_view_permission(obj, user)
             rejected == \E k \in 1..Len(value.items) :
                             /\ is_django_object(value.items[k])
                             /\ ~has_view_permission(value.items[k], user)
         IN  [value |-> ListValue(Select(value.items, permitted)),
              errors |-> IF rejected THEN Append(errs, Denied(raw_expr)) ELSE errs]
    ELSE IF is_django_object(value.items[1]) /\ ~has_view_permission(value.items[1], user)
    THEN [value |-> Scalar(EmptyString), errors |-> Append(errs, Denied(raw_expr))]
    ELSE [value |-> value, errors |-> errs]

\* permissions.py 35-79: the value enforce_permissions returns and the
\* error list after the call.
enforce_permissions(value, raw_expr, errs, user, check) ==
    IF ~check \/ user = NoUser
    THEN [value |-> value, errors |-> errs]
    ELSE IF value.type = "list"
    THEN LET permitted(obj) == ~is_django_object(obj) \/ has_view_permission(obj, user)
             rejected == \E k \in 1..Len(value.items) :
                             /\ is_django_object(value.items[k])
                             /\ ~has_view_permission(value.items[k], user)
         IN  [value |-> ListValue(Select(value.items, permitted)),
              errors |-> IF rejected THEN Append(errs, Denied(raw_expr)) ELSE errs]
    ELSE IF is_django_object(value.items[1]) /\ ~has_view_permission(value.items[1], user)
    THEN [value |-> Scalar(EmptyString), errors |-> Append(errs, Denied(raw_expr))]
    ELSE [value |-> value, errors |-> errs]

\* core.py 80-100, 122-144, 165-189: the permission check process_text makes
\* on the value of a placeholder.
permission_check(value, raw_expr, errs, user, check) ==
    IF ~(check /\ user # NoUser)
    THEN [value |-> value, errors |-> errs]
    ELSE IF value.type = "list"
    THEN LET permitted(obj) == core_has_view_permission(obj, user)
             not_permitted(obj) == ~core_has_view_permission(obj, user)
         IN  [value |-> ListValue(Select(value.items, permitted)),
              errors |-> IF Select(value.items, not_permitted) # <<>>
                         THEN Append(errs, Denied(raw_expr)) ELSE errs]
    ELSE IF ~core_has_view_permission(value.items[1], user)
    THEN [value |-> Scalar(EmptyString), errors |-> Append(errs, Denied(raw_expr))]
    ELSE [value |-> value, errors |-> errs]

(***************************************************************************)
(* Strings are sequences of pieces: the literal text around the            *)
(* placeholders, the string form of an object, and the delimiter.  A mixed *)
(* text with n placeholders is  lit 0, tag 1, lit 1, ..., tag n, lit n.    *)
(***************************************************************************)
Lit(k) == << << "lit", k >> >>

\* str(obj); str("") is the empty string.
Str(obj) == IF obj = EmptyString THEN <<>> ELSE << << "str", obj.kind, obj.id >> >>

Delimiter == << << "delimiter" >> >>

\* delimiter.join(str(item) for item in value).
RECURSIVE Join(_, _)
Join(objs, k) ==
    IF k > Len(objs) THEN <<>>
    ELSE IF k = Len(objs) THEN Str(objs[k])
    ELSE Str(objs[k]) \o Delimiter \o Join(objs, k + 1)

Text(pure, tags) == [pure |-> pure, tags |-> tags]

\* What a call returned: `raised` names the exception ("none": it returned),
\* `form` tells a string from a list of strings and from a raw value, and
\* `replaced` counts the placeholders the call got to.
Returned(raised, form, out, replaced) ==
    [raised |-> raised, form |-> form, out |-> out, replaced |-> replaced]

NotReturned == Returned("none", "pending", <<>>, 0)

\* core.py 56-111: the text is one placeholder.
pure_placeholder(tag, errs, user, check, md) ==
    IF tag.type = "raise"
    THEN [ret |-> Returned("resolution_error", "none", <<>>, 1), errors |-> errs]
    ELSE LET r == permission_check(tag, 1, errs, user, check)
         IN  [ret |-> IF md = "normal"
                      THEN IF r.value.type = "list"
                           THEN Returned("none", "string", Join(r.value.items, 1), 1)
                           ELSE Returned("none", "value", r.value.items[1], 1)
                      ELSE IF r.value.type = "list"
                           THEN Returned("none", "list",
                                         [k \in 1..Len(r.value.items) |->
                                              Str(r.value.items[k])], 1)
                           ELSE Returned("none", "string", Str(r.value.items[1]), 1),
              errors |-> r.errors]

\* Faulty variant of mixed_table: every string is built from the last element.
mixed_table_LastElement(tags, errs, user, check) ==
    IF Len(tags) # 1
    THEN [ret |-> Returned("ValueError", "none", <<>>, 0), errors |-> errs]
    ELSE IF tags[1].type = "raise"
    THEN [ret |-> Returned("resolution_error", "none", <<>>, 1), errors |-> errs]
    ELSE LET r == permission_check(tags[1], 1, errs, user, check)
         IN  [ret |-> IF r.value.type # "list"
                      THEN Returned("none", "string",
                                    Lit(0) \o Str(tags[1].items[1]) \o Lit(1), 1)
                      ELSE Returned("none", "list",
                                    [k \in 1..Len(r.value.items) |->
                                         Lit(0) \o Str(r.value.items[Len(r.value.items)])
                                                \o Lit(1)], 1),
              errors |-> r.errors]

\* core.py 114-159: mixed text in table mode.
mixed_table(tags, errs, user, check) ==
    IF Len(tags) # 1
    THEN [ret |-> Returned("ValueError", "none", <<>>, 0), errors |-> errs]
    ELSE IF tags[1].type = "raise"
    THEN [ret |-> Returned("resolution_error", "none", <<>>, 1), errors |-> errs]
    ELSE LET r == permission_check(tags[1], 1, errs, user, check)
         IN  [ret |-> IF r.value.type # "list"
                      THEN \* core.py 147-150: the replacer resolves the expression again.
                           Returned("none", "string",
                                    Lit(0) \o Str(tags[1].items[1]) \o Lit(1), 1)
                      ELSE Returned("none", "list",
                                    [k \in 1..Len(r.value.items) |->
                                         Lit(0) \o Str(r.value.items[k]) \o Lit(1)], 1),
              errors |-> r.errors]

\* core.py 162-196: mixed text in normal mode; re.sub calls the replacer on
\* the placeholders from left to right and an exception ends the call.
RECURSIVE mixed_normal(_, _, _, _, _, _)
mixed_normal(tags, k, out, errs, user, check) ==
    IF k > Len(tags)
    THEN [ret |-> Returned("none", "string", out, Len(tags)), errors |-> errs]
    ELSE IF tags[k].type = "raise"
    THEN [ret |-> Returned("resolution_error", "none", <<>>, k), errors |-> errs]
    ELSE LET r == permission_check(tags[k], k, errs, user, check)
         IN  IF r.value.type = "list"
             THEN [ret |-> Returned("ValueError", "none", <<>>, k), errors |-> r.errors]
             ELSE mixed_normal(tags, k + 1, out \o Str(r.value.items[1]) \o Lit(k),
                               r.errors, user, check)

\* core.py 19-196.
process_text(txt, errs, user, check, md) ==
    IF txt.pure THEN pure_placeholder(txt.tags[1], errs, user, check, md)
    ELSE IF md = "table" THEN mixed_table(txt.tags, errs, user, check)
    ELSE mixed_normal(txt.tags, 1, Lit(0), errs, user, check)

\* A call of process_text with an error list.
CallProcessText ==
    /\ pc = "call"
    /\ LET r == process_text(text, errors, request_user, check_permissions, mode)
       IN  /\ returned' = r.ret
           /\ errors' = r.errors
    /\ pc' = "processed"
    /\ UNCHANGED << prs, context, plan_vars, slide_index, saved, result, compose_vars,
                    text, request_user, check_permissions, mode,
                    resolve_vars, graph_vars >>

\* A call of enforce_permissions on the value of a placeholder.
CallEnforcePermissions ==
    /\ pc = "call"
    /\ text.pure
    /\ text.tags[1].type # "raise"
    /\ LET r == enforce_permissions(text.tags[1], 1, errors, request_user,
                                    check_permissions)
       IN  /\ returned' = Returned("none", "value", r.value, 1)
           /\ errors' = r.errors
    /\ pc' = "enforced"
    /\ UNCHANGED << prs, context, plan_vars, slide_index, saved, result, compose_vars,
                    text, request_user, check_permissions, mode,
                    resolve_vars, graph_vars >>

(***************************************************************************)
(* The expression resolver (templating/parser.py, templating/resolver.py). *)
(* A value is known by its type and its identity; a list also by its       *)
(* items.  An expression is the sequence of its segments as                *)
(* split_expression returns them; a segment is known by its form (what     *)
(* the checks on its text find), its attribute chain (the names between    *)
(* "__"), whether it has a parenthesised argument list, the argument       *)
(* tokens and the conditions of its bracket filter.                        *)
(***************************************************************************)
Value(type, name, k, items) == [type |-> type, id |-> << name, k >>, items |-> items]

None == Value("none", "None", 0, <<>>)
Atom(name, k) == Value("atom", name, k, <<>>)
EmptyStr == Atom("", 0)
Object(name, k) == Value("object", name, k, <<>>)
PyList(items) == Value("list", "list", 0, items)
Callable(name, k) == Value("callable", name, k, <<>>)
Timestamp == Value("datetime", "now", 0, <<>>)
Dict(k) == Value("dict", "context", k, <<>>)

\* What a call of the callable `name` of user k with the arguments args returns.
ResultOf(name, k, args) == Value("atom", name, k, args)

Users == PyList([k \in 1..MaxObjs |-> Object("user", k)])

\* resolver.py 21-24: obj.get(part) on a dict, getattr(obj, part, None) on
\* anything else.  Dict(1) is the context {"user", "users", "now"}, Dict(0)
\* the empty context; a user has data attributes and three methods.
Fetch(obj, part) ==
    IF obj = Dict(1)
    THEN CASE part = "user" -> Object("user", 1)
           [] part = "users" -> Users
           [] part = "now" -> Atom("shadow", 0)
           [] OTHER -> None
    ELSE IF obj.type = "object" /\ obj.id[1] = "user"
    THEN CASE part = "name" -> Atom("name", obj.id[2])
           [] part = "is_active" -> Atom(IF obj.id[2] % 2 = 1 THEN "True" ELSE "False", 0)
           [] part = "role" -> Atom(IF obj.id[2] <= 2 THEN "admin" ELSE "staff", 0)
           [] part = "profile" -> Object("profile", obj.id[2])
           [] part = "greet" -> Callable("greet", obj.id[2])
           [] part = "tag" -> Callable("tag", obj.id[2])
           [] part = "maker" -> Callable("maker", obj.id[2])
           [] OTHER -> None
    ELSE IF obj.type = "object" /\ obj.id[1] = "profile"
    THEN IF part = "phone" THEN Atom("phone", obj.id[2]) ELSE None
    ELSE IF obj.type = "datetime"
    THEN IF part = "year" THEN Atom("year", 0) ELSE None
    ELSE None

\* A call fn(*args): greet() takes no argument, tag(x) exactly one, and
\* maker() takes none and returns the method tag; any other call fails.
Invoke(fn, args) ==
    CASE fn.id[1] = "greet" /\ args = <<>> ->
             [ok |-> TRUE, value |-> ResultOf("hello", fn.id[2], <<>>)]
      [] fn.id[1] = "tag" /\ Len(args) = 1 ->
             [ok |-> TRUE, value |-> ResultOf("tagged", fn.id[2], args)]
      [] fn.id[1] = "maker" /\ args = <<>> ->
             [ok |-> TRUE, value |-> Callable("tag", fn.id[2])]
      [] OTHER -> [ok |-> FALSE, value |-> None]

\* The attribute lookups and the invocations of callables done so far.
Work(lookups, calls) == [lookups |-> lookups, calls |-> calls]

\* What a function returned (raised = "none") or the exception it raised.
Res(raised, value, w) == [raised |-> raised, value |-> value, work |-> w]

\* resolver.py 6-30: the chain of lookups from part k on.
RECURSIVE get_nested_attr(_, _, _, _)
get_nested_attr(obj, parts, k, w) ==
    IF k > Len(parts) THEN Res("none", obj, w)
    ELSE IF obj = None THEN Res("none", None, w)
    ELSE LET got == Fetch(obj, parts[k])
             w1 == [w EXCEPT !.lookups = @ + 1]
         IN  IF got.type = "callable"
             THEN LET c == Invoke(got, <<>>)
                      w2 == [w1 EXCEPT !.calls = @ + 1]
                  IN  IF c.ok THEN get_nested_attr(c.value, parts, k + 1, w2)
                      ELSE Res("BadTag", None, w2)
             ELSE get_nested_attr(got, parts, k + 1, w1)

\* resolver.py 53-80: the literal a string stands for.
parse_value(val_str) ==
    IF val_str \in { "true", "True" } THEN << "bool", "True" >>
    ELSE IF val_str \in { "false", "False" } THEN << "bool", "False" >>
    ELSE IF val_str = "1" THEN << "int", "1" >>
    ELSE << "str", val_str >>

\* str(value) of a resolved value and of a parsed literal.
StrOfValue(value) == IF value.type = "none" THEN "None" ELSE value.id[1]
StrOfLiteral(literal) == literal[2]

Condition(attr, value) == [attr |-> attr, value |-> value]

\* resolver.py 33-50.
evaluate_condition(item, condition) ==
    StrOfValue(get_nested_attr(item, condition.attr, 1, Work(0, 0)).value)
        = StrOfLiteral(parse_value(condition.value))

\* Faulty variant of filter_plain: an item is kept if it meets any one of
\* the conditions.
filter_plain_AnyCondition(value, conditions) ==
    LET value_list == IF value.type = "list" THEN value.items ELSE << value >>
        keep(item) == \E c \in 1..Len(conditions) : evaluate_condition(item, conditions[c])
    IN  IF conditions = <<>> THEN value
        ELSE PyList(SelectSeq(value_list, keep))

\* parser.py 174-181: the bracket filter on a value that is no queryset.
filter_plain(value, conditions) ==
    LET value_list == IF value.type = "list" THEN value.items ELSE << value >>
        keep(item) == \A c \in 1..Len(conditions) : evaluate_condition(item, conditions[c])
    IN  IF conditions = <<>> THEN value
        ELSE PyList(SelectSeq(value_list, keep))

\* parse_callable_args: every argument token becomes its literal.
parse_callable_args(tokens) == [k \in 1..Len(tokens) |-> parse_value(tokens[k])]

\* parser.py 182-183, enforce_permissions(value_item, perm_user): without a
\* user the item is left as it is and nothing is raised.
enforce_item_permissions(value_item, perm_user) ==
    IF perm_user = NoUser THEN "unchanged" ELSE "checked"

Segment(form, attr, called, args, filter) ==
    [form |-> form, attr |-> attr, called |-> called, args |-> args, filter |-> filter]

\* parser.py 133-184: a segment resolved against a value that is no list.
\* No value here has a method named filter, so 153-171 is never entered.
resolve_item(cur, segment, w) ==
    LET g == get_nested_attr(cur, segment.attr, 1, w)
        called ==
            IF ~segment.called THEN g
            ELSE IF g.value.type # "callable" THEN Res("TagCallable", None, g.work)
            ELSE LET c == Invoke(g.value, parse_callable_args(segment.args))
                     w2 == [g.work EXCEPT !.calls = @ + 1]
                 IN  IF c.ok THEN Res("none", c.value, w2)
                     ELSE Res("TagCallable", None, w2)
    IN  IF g.raised # "none" THEN g
        ELSE IF called.raised # "none" THEN called
        ELSE LET value == filter_plain(called.value, segment.filter)
                 value_list == IF called.value.type = "list" THEN called.value.items
                               ELSE << called.value >>
             IN  IF \A q \in 1..Len(value_list) :
                        enforce_item_permissions(value_list[q], NoUser) = "unchanged"
                 THEN Res("none", value, called.work)
                 ELSE Res("PermissionDenied", None, called.work)

RECURSIVE resolve_segment(_, _, _)
RECURSIVE broadcast_NoFlatten(_, _, _, _, _)
RECURSIVE broadcast(_, _, _, _, _)

\* Faulty variant of broadcast: a list result is appended as one element.
broadcast_NoFlatten(items, k, segment, results, w) ==
    IF k > Len(items) THEN Res("none", PyList(results), w)
    ELSE LET res == resolve_segment(items[k], segment, w)
         IN  IF res.raised # "none" THEN res
             ELSE broadcast_NoFlatten(items, k + 1, segment, Append(results, res.value),
                                      res.work)

\* parser.py 123-131: the segment resolved against every item of a list.
broadcast(items, k, segment, results, w) ==
    IF k > Len(items) THEN Res("none", PyList(results), w)
    ELSE LET res == resolve_segment(items[k], segment, w)
         IN  IF res.raised # "none" THEN res
             ELSE broadcast(items, k + 1, segment,
                            IF res.value.type = "list" THEN results \o res.value.items
                            ELSE Append(results, res.value),
                            res.work)

\* parser.py 102-184.
resolve_segment(cur, segment, w) ==
    IF segment.form = "round" THEN Res("BadTag", None, w)
    ELSE IF segment.form = "square" THEN Res("BadTag", None, w)
    ELSE IF segment.form # "ok" THEN Res("BadTag", None, w)
    ELSE IF cur.type = "list" THEN broadcast(cur.items, 1, segment, <<>>, w)
    ELSE resolve_item(cur, segment, w)

Seg(attr) == Segment("ok", attr, FALSE, <<>>, <<>>)
Malformed(form) == Segment(form, <<>>, FALSE, <<>>, <<>>)

IsActive == Condition(<< "is_active" >>, "True")
IsAdmin == Condition(<< "role" >>, "admin")
Filtered(conditions) == Segment("ok", << "users" >>, FALSE, <<>>, conditions)

\* The segments an expression is made of: names, a "__" chain, calls with
\* and without arguments, bracket filters, and the malformed ones: the
\* empty segment (as in "a..b"), "name(", "users[", "{name}" and "na#me".
Segments ==
    { Seg(<< a >>) : a \in { "user", "users", "now", "name", "missing", "greet", "year" } }
    \cup { Seg(<< "profile", "phone" >>),
           Segment("ok", << "greet" >>, TRUE, <<>>, <<>>),
           Segment("ok", << "tag" >>, TRUE, << "x" >>, <<>>),
           Segment("ok", << "maker" >>, TRUE, << "1" >>, <<>>),
           Filtered(<< IsActive >>), Filtered(<< IsAdmin >>),
           Filtered(<< IsActive, IsAdmin >>) }
    \cup { Malformed(f) : f \in { "empty", "round", "square", "brace", "badchar" } }

\* What the resolution returned or raised.
Out(raised, value) == [raised |-> raised, value |-> value]
NotResolved == Out("pending", None)

\* parser.py 22-26 and 65-81: the brace check of parse_formatted_tag, then
\* in resolve_tag_expression the empty first segment, BAD_SEGMENT_PATTERN
\* and the special case "now".
ResolveStart ==
    /\ pc = "resolve"
    /\ IF entry = "parse_formatted_tag" /\ \E k \in 1..Len(expr) : expr[k].form = "brace"
       THEN outcome' = Out("BadTag", None) /\ pc' = "resolved" /\ current' = current
       ELSE IF expr[1].form = "empty"
       THEN outcome' = Out("none", EmptyStr) /\ pc' = "resolved" /\ current' = current
       ELSE IF \E k \in 1..Len(expr) : expr[k].form = "empty"
       THEN outcome' = Out("BadTag", None) /\ pc' = "resolved" /\ current' = current
       ELSE IF expr[1] = Seg(<< "now" >>)
       THEN outcome' = Out("none", Timestamp) /\ pc' = "resolved" /\ current' = current
       ELSE outcome' = outcome /\ pc' = "segments" /\ current' = root
    /\ UNCHANGED << prs, context, errors, plan_vars, slide_index, saved, result,
                    compose_vars, text_vars, expr, entry, root, position, work,
                    graph_vars >>

\* parser.py 82-89: one iteration of the loop over the segments.
ResolveSegment ==
    /\ pc = "segments"
    /\ position <= Len(expr)
    /\ LET r == resolve_segment(current, expr[position], work)
       IN  /\ work' = r.work
           /\ IF r.raised # "none"
              THEN /\ outcome' = Out(r.raised, None)
                   /\ pc' = "resolved"
                   /\ UNCHANGED << current, position >>
              ELSE IF r.value = None
              THEN /\ outcome' = Out("none", EmptyStr)
                   /\ pc' = "resolved"
                   /\ UNCHANGED << current, position >>
              ELSE /\ current' = r.value
                   /\ position' = position + 1
                   /\ UNCHANGED << outcome, pc >>
    /\ UNCHANGED << prs, context, errors, plan_vars, slide_index, saved, result,
                    compose_vars, text_vars, expr, entry, root, graph_vars >>

\* parser.py 91: return current.
ResolveReturn ==
    /\ pc = "segments"
    /\ position > Len(expr)
    /\ outcome' = Out("none", current)
    /\ pc' = "resolved"
    /\ UNCHANGED << prs, context, errors, plan_vars, slide_index, saved, result,
                    compose_vars, text_vars, expr, entry, root, current, position, work,
                    graph_vars >>

(***************************************************************************)
(* compose_graphs_pptx (pptx/graphs.py 23-291).  Lengths are in tenths of  *)
(* an inch.                                                                *)
(***************************************************************************)
min_width == 100
min_height == 75
node_width == 25
node_height == 15
margin == 10

\* A node by its position; a node may lack the key 'position'.
Node(x, y) == [has_position |-> TRUE, x |-> x, y |-> y]
NoPosition == [has_position |-> FALSE, x |-> 0, y |-> 0]

\* A graph by its nodes; a graph may lack the key 'nodes'.  Its edges are
\* an empty list.
Graph(has_nodes, nodes) == [has_nodes |-> has_nodes, nodes |-> nodes]

Coordinates == { margin, MaxCoord }

NodeKinds == { Node(x, y) : x \in Coordinates, y \in Coordinates } \cup { NoPosition }

GraphKinds ==
    { Graph(FALSE, <<>>), Graph(TRUE, <<>>) }
    \cup { Graph(TRUE, nodes) : nodes \in SeqsUpTo(NodeKinds, MaxNodes) }

\* The slide sizes of the base template: 4:3 and widescreen.
TemplateSizes == { << min_width, min_height >>, << min_width + 33, min_height >> }

Max(a, b) == IF a >= b THEN a ELSE b

\* graphs.py 253-291, from node k on.
RECURSIVE calculate_slide_dimensions(_, _, _, _, _, _)
calculate_slide_dimensions(nodes, k, max_x, max_y, errs, graph_index) ==
    IF k > Len(nodes) THEN [width |-> max_x, height |-> max_y, errs |-> errs]
    ELSE IF ~nodes[k].has_position
    THEN calculate_slide_dimensions(nodes, k + 1, max_x, max_y,
                                    Append(errs, Error("node_missing_position", graph_index)),
                                    graph_index)
    ELSE calculate_slide_dimensions(nodes, k + 1,
                                    Max(max_x, nodes[k].x + node_width + margin),
                                    Max(max_y, nodes[k].y + node_height + margin),
                                    errs, graph_index)

\* graphs.py 294-345, for the nodes from k on: the shapes created and the
\* errors recorded.
RECURSIVE create_node_shapes(_, _, _, _, _)
create_node_shapes(nodes, k, shapes, errs, graph_index) ==
    IF k > Len(nodes) THEN [shapes |-> shapes, errs |-> errs]
    ELSE IF ~nodes[k].has_position
    THEN create_node_shapes(nodes, k + 1, shapes,
                            Append(errs, Error("node_missing_position_field", graph_index)),
                            graph_index)
    ELSE create_node_shapes(nodes, k + 1, Append(shapes, nodes[k]), errs, graph_index)

\* graphs.py 110-137: validation and the blank base deck, which keeps the
\* slide size of the first template.
GraphsStart ==
    /\ pc = "graphs"
    /\ IF template_files = <<>>
       THEN /\ errors' = Append(errors, Error("no_template_files", 0))
            /\ result' = Result(TRUE, FALSE, errors')
            /\ pc' = "returned"
            /\ prs' = prs
       ELSE IF graphs = <<>>
       THEN /\ errors' = Append(errors, Error("no_graphs_specified", 0))
            /\ result' = Result(TRUE, FALSE, errors')
            /\ pc' = "returned"
            /\ prs' = prs
       ELSE /\ prs' = <<>>
            /\ pc' = "graph_slides"
            /\ UNCHANGED << errors, result >>
    /\ UNCHANGED << context, plan_vars, slide_index, saved, compose_vars, text_vars,
                    resolve_vars, graph_vars >>

\* graphs.py 140-229: one graph, with the default layout_name, which no
\* template provides.  slide_index is the 1-based number of the graph.
GraphSlide ==
    /\ pc = "graph_slides"
    /\ slide_index <= Len(graphs)
    /\ LET graph == graphs[slide_index]
           failed(msg) ==
               /\ errors' = Append(errors, Error(msg, slide_index))
               /\ UNCHANGED << prs, slide_width, slide_height >>
       IN  IF ~graph.has_nodes THEN failed("missing_nodes_key")
           ELSE IF graph.nodes = <<>> THEN failed("nodes_list_is_empty")
           ELSE IF template_files[1].layouts = 0 THEN failed("no_slide_layouts_available")
           ELSE LET d == calculate_slide_dimensions(graph.nodes, 1, min_width, min_height,
                                                    errors, slide_index)
                    c == create_node_shapes(graph.nodes, 1, <<>>, d.errs, slide_index)
                IN  /\ slide_width' = d.width
                    /\ slide_height' = d.height
                    /\ prs' = Append(prs, c.shapes)
                    /\ errors' = c.errs
    /\ slide_index' = slide_index + 1
    /\ UNCHANGED << context, pc, plan_vars, saved, result, compose_vars, text_vars,
                    resolve_vars, graphs >>

\* graphs.py 231-237: errors were recorded, nothing is saved.
GraphsAbort ==
    /\ pc = "graph_slides"
    /\ slide_index > Len(graphs)
    /\ errors # <<>>
    /\ result' = Result(TRUE, FALSE, errors)
    /\ pc' = "returned"
    /\ UNCHANGED << prs, context, errors, plan_vars, slide_index, saved, compose_vars,
                    text_vars, resolve_vars, graph_vars >>

\* graphs.py 239-246: the deck is saved and the output returned.
GraphsSave ==
    /\ pc = "graph_slides"
    /\ slide_index > Len(graphs)
    /\ errors = <<>>
    /\ saved' = saved + 1
    /\ result' = Result(FALSE, TRUE, <<>>)
    /\ pc' = "returned"
    /\ UNCHANGED << prs, context, errors, plan_vars, slide_index, compose_vars,
                    text_vars, resolve_vars, graph_vars >>

(***************************************************************************)
(* Initial states and specifications.                                      *)
(***************************************************************************)
NoContext == [users |-> Outcome("none", <<>>), items |-> Outcome("none", <<>>),
              user |-> NoItem]

InitPlanner ==
    /\ i = 0
    /\ in_loop = FALSE
    /\ loop_start_index = -1
    /\ loop_variable = NoName
    /\ loop_collection = NoName
    /\ loop_sections = <<>>
    /\ errors = <<>>
    /\ slides_to_process = <<>>
    /\ current_slide_number = 1
    /\ slide_index = 1
    /\ saved = 0
    /\ result = Result(TRUE, TRUE, <<>>)

NoCompose ==
    /\ template_files = <<>>
    /\ slides = <<>>
    /\ global_context = NoContext

NoResolve ==
    /\ expr = <<>>
    /\ entry = "none"
    /\ root = None
    /\ current = None
    /\ position = 1
    /\ outcome = NotResolved
    /\ work = Work(0, 0)

NoGraphs ==
    /\ graphs = <<>>
    /\ slide_width = min_width
    /\ slide_height = min_height

NoText ==
    /\ text = Text(FALSE, <<>>)
    /\ request_user = NoUser
    /\ check_permissions = FALSE
    /\ mode = "normal"
    /\ returned = NotReturned

\* The slides of the presentations process_loops is run on: by their shapes.
PlanPageKinds ==
    { <<PlainShape>>, <<StartUsers>>, <<StartItems>>, <<EndShape>>,
      <<EndShape, StartUsers>> }

\* process_loops called on a presentation, with every outcome of the
\* collection `users`.
InitPlan ==
    /\ pc = "scan"
    /\ prs \in SeqsUpTo(PlanPageKinds, MaxPages)
    /\ context \in Contexts({NoItem})
    /\ InitPlanner
    /\ NoCompose
    /\ NoText
    /\ NoResolve
    /\ NoGraphs

NextPlan == ScanSlide \/ CheckUnclosed \/ ExpandSlides

SpecPlan == InitPlan /\ [][NextPlan]_vars

\* The slides of the presentations the scan is run on: every combination of
\* markers on a slide that the first pass tells apart.
ScanPageKinds ==
    { <<PlainShape>>, <<StartUsers>>, <<StartItems>>, <<EndShape>>,
      <<StartUsers, EndShape>>, <<EndShape, StartUsers>>,
      <<StartUsers, StartItems>>, <<EndShape, EndShape>> }

\* process_loops called on a presentation whose collections are lists.
InitScan ==
    /\ pc = "scan"
    /\ prs \in SeqsUpTo(ScanPageKinds, MaxPages)
    /\ context = [users |-> Outcome("list", ListOf("users", MaxItems)),
                  items |-> Outcome("list", ListOf("items", MaxItems)),
                  user |-> NoItem]
    /\ InitPlanner
    /\ NoCompose
    /\ NoText
    /\ NoResolve
    /\ NoGraphs

SpecScan == InitScan /\ [][NextPlan]_vars

\* The slides a rendered template may be built from.
RenderPageKinds ==
    { <<PlainShape>>, <<UserShape>>, <<StartUsers>>, <<StartItems>>, <<EndShape>> }

\* render_pptx called on a template.
InitRender ==
    /\ pc = "scan"
    /\ prs \in SeqsUpTo(RenderPageKinds, MaxPages)
    /\ context \in Contexts({NoItem, AmbientUser})
    /\ InitPlanner
    /\ NoCompose
    /\ NoText
    /\ NoResolve
    /\ NoGraphs

\* compose_pptx called on templates and slide specifications.
InitCompose ==
    /\ pc = "compose"
    /\ prs = <<>>
    /\ context = NoContext
    /\ InitPlanner
    /\ template_files \in {<<>>} \cup SeqsUpTo(TemplateKinds, MaxTemplates)
    /\ slides \in {<<>>} \cup SeqsUpTo(SlideSpecKinds, MaxSpecs)
    /\ global_context \in { [NoContext EXCEPT !.user = a] : a \in {NoItem, AmbientUser} }
    /\ NoText
    /\ NoResolve
    /\ NoGraphs

Init == InitRender \/ InitCompose

NextRender == ScanSlide \/ CheckUnclosed \/ ExpandSlides \/ RenderSlide \/ RenderAbort \/ RenderSave

NextCompose == ComposeStart \/ ComposeSlide \/ ComposeAbort \/ ComposeSave

Next == NextRender \/ NextCompose

Spec == Init /\ [][Next]_vars

\* compose_pptx of pptx/compose.py called on templates and slide
\* specifications whose values may be template strings.
InitComposePackage ==
    /\ pc = "compose"
    /\ prs = <<>>
    /\ context = NoContext
    /\ InitPlanner
    /\ template_files \in {<<>>} \cup SeqsUpTo(TemplateKinds, MaxTemplates)
    /\ slides \in {<<>>} \cup SeqsUpTo(TemplatedSpecKinds, MaxSpecs)
    /\ global_context \in { [NoContext EXCEPT !.user = a] : a \in {NoItem, AmbientUser} }
    /\ NoText
    /\ NoResolve
    /\ NoGraphs

NextComposePackage == ComposeStart \/ ComposeSpecSlide \/ ComposeAbort \/ ComposeSave

SpecComposePackage == InitComposePackage /\ [][NextComposePackage]_vars

\* An expression handed to parse_formatted_tag, or to resolve_tag_expression
\* as process_text does, with the context or with an empty context.
InitResolve ==
    /\ pc = "resolve"
    /\ prs = <<>>
    /\ context = NoContext
    /\ InitPlanner
    /\ NoCompose
    /\ NoText
    /\ NoGraphs
    /\ expr \in SeqsUpTo(Segments, MaxSegs)
    /\ entry \in { "parse_formatted_tag", "resolve_tag_expression" }
    /\ root \in { Dict(0), Dict(1) }
    /\ current = None
    /\ position = 1
    /\ outcome = NotResolved
    /\ work = Work(0, 0)

NextResolve == ResolveStart \/ ResolveSegment \/ ResolveReturn

SpecResolve == InitResolve /\ [][NextResolve]_vars

\* compose_graphs_pptx called on one template and a list of graphs.
InitGraphs ==
    /\ pc = "graphs"
    /\ prs = <<>>
    /\ context = NoContext
    /\ InitPlanner
    /\ template_files \in {<<>>} \cup SeqsUpTo(TemplateKinds, 1)
    /\ slides = <<>>
    /\ global_context = NoContext
    /\ NoText
    /\ NoResolve
    /\ graphs \in {<<>>} \cup SeqsUpTo(GraphKinds, MaxGraphs)
    /\ \E size \in TemplateSizes : slide_width = size[1] /\ slide_height = size[2]

NextGraphs == GraphsStart \/ GraphSlide \/ GraphsAbort \/ GraphsSave

SpecGraphs == InitGraphs /\ [][NextGraphs]_vars

\* The texts process_text is called on: one placeholder alone, or literal
\* text around zero or more placeholders.
Texts ==
    { Text(TRUE, << v >>) : v \in TagValues }
    \cup { Text(FALSE, <<>>) }
    \cup { Text(FALSE, tags) : tags \in SeqsUpTo(TagValues, MaxTags) }

\* process_text or enforce_permissions called with an empty error list.
InitText ==
    /\ pc = "call"
    /\ prs = <<>>
    /\ context = NoContext
    /\ InitPlanner
    /\ NoCompose
    /\ text \in Texts
    /\ request_user \in { NoUser, SomeUser }
    /\ check_permissions \in BOOLEAN
    /\ mode \in { "normal", "table" }
    /\ returned = NotReturned
    /\ NoResolve
    /\ NoGraphs

NextText == CallProcessText \/ CallEnforcePermissions

SpecText == InitText /\ [][NextText]_vars

(***************************************************************************)
(* Vocabulary of the properties.                                           *)
(***************************************************************************)
HasStart(page) == \E q \in 1..Len(page) : is_loop_start(page[q])
HasEnd(page)   == \E q \in 1..Len(page) : is_loop_end(page[q])
StartCount(page) == Cardinality({ q \in 1..Len(page) : is_loop_start(page[q]) })
EndCount(page)   == Cardinality({ q \in 1..Len(page) : is_loop_end(page[q]) })

\* The end markers of a page that no start marker precedes (a shape that
\* carries both directives has its start read first).
UnprecededEnds(page) ==
    { q \in 1..Len(page) :
        is_loop_end(page[q]) /\ \A r \in 1..q : ~is_loop_start(page[r]) }

InSection(j, section) == section.start_index <= j /\ j <= section.end_index
SectionsNow == { loop_sections[q] : q \in 1..Len(loop_sections) }
InNoSection(j) == \A section \in SectionsNow : ~InSection(j, section)
PageIndices == 0..(Len(prs) - 1)

\* Positions in slides_to_process of the work items of slide j.
PositionsOf(j) == { m \in 1..Len(slides_to_process) : slides_to_process[m].slide = j }

\* The work items of the slides s..e, in emission order, without their numbers.
Emitted(s, e) ==
    LET inRange(w) == s <= w.slide /\ w.slide <= e
        sel == SelectSeq(slides_to_process, inRange)
    IN  [m \in 1..Len(sel) |->
            [slide |-> sel[m].slide, loop_var |-> sel[m].loop_var,
             loop_item |-> sel[m].loop_item]]

\* N replicas of the slides s..e: element 1's range first, each in page order.
Replicas(s, e, var, items) ==
    LET width == e - s + 1
    IN  [m \in 1..(Len(items) * width) |->
            [slide |-> s + ((m - 1) % width), loop_var |-> var,
             loop_item |-> items[((m - 1) \div width) + 1]]]

\* The slides s..e once each, as plain pages.
PlainPages(s, e) ==
    [m \in 1..(e - s + 1) |-> [slide |-> s + m - 1, loop_var |-> NoName,
                               loop_item |-> NoItem]]

Resolved(section) == resolve_tag(section.collection, context)

ErrorsWith(msg) == { q \in 1..Len(errors) : errors[q].msg = msg }

\* Every slide outside the closed sections is emitted once, as a plain page.
PassThroughOnce ==
    \A j \in PageIndices :
        InNoSection(j) =>
            /\ Cardinality(PositionsOf(j)) = 1
            /\ \A m \in PositionsOf(j) :
                  /\ slides_to_process[m].loop_var = NoName
                  /\ slides_to_process[m].loop_item = NoItem

C2_LoopCardinality ==
    pc = "planned" =>
        \A section \in SectionsNow :
            Resolved(section).kind = "list" =>
                Emitted(section.start_index, section.end_index)
                    = Replicas(section.start_index, section.end_index,
                               section.variable, Resolved(section).items)

\* A section of at least two slides expanded over at least two elements.
C2_Witness ==
    /\ pc = "planned"
    /\ \E section \in SectionsNow :
          /\ Resolved(section).kind = "list"
          /\ Len(Resolved(section).items) >= 2
          /\ Len(Emitted(section.start_index, section.end_index)) >= 4

(***************************************************************************)
(* C3: a slide in no closed section is emitted exactly once, with no loop  *)
(* variable; such slides keep their relative order, and the output of a    *)
(* section lies after every pass-through slide that preceded the section   *)
(* and before every pass-through slide that followed it.                   *)
(***************************************************************************)
C3_PassThroughInPlace ==
    pc = "planned" =>
        /\ PassThroughOnce
        /\ \A j1, j2 \in PageIndices :
              (InNoSection(j1) /\ InNoSection(j2) /\ j1 < j2) =>
                  \A m1 \in PositionsOf(j1), m2 \in PositionsOf(j2) : m1 < m2
        /\ \A section \in SectionsNow : \A j \in PageIndices :
              InNoSection(j) =>
                  \A m \in PositionsOf(j) :
                      \A p \in section.start_index..section.end_index :
                          \A mp \in PositionsOf(p) :
                              /\ j < section.start_index => m < mp
                              /\ j > section.end_index => m > mp

\* An expanded section with a pass-through slide before it and one after it.
C3_Witness ==
    /\ pc = "planned"
    /\ \E section \in SectionsNow :
          /\ Resolved(section).kind = "list"
          /\ Len(Resolved(section).items) >= 2
          /\ \E j1, j2 \in PageIndices :
                /\ j1 < section.start_index /\ InNoSection(j1)
                /\ j2 > section.end_index /\ InNoSection(j2)

(***************************************************************************)
(* C4: a closed section whose collection fails to resolve, resolves to     *)
(* None or resolves to a value that is not iterable records an error.      *)
(***************************************************************************)
ResolutionError(section) ==
    LET kind == Resolved(section).kind
    IN  Error(IF kind = "raise" THEN "failed_to_resolve_collection"
              ELSE IF kind = "none" THEN "collection_not_found"
              ELSE "not_iterable",
              section.start_index + 1)

ErrorRecordedOnce(e) == Cardinality({ q \in 1..Len(errors) : errors[q] = e }) = 1

FailedSections == { section \in SectionsNow : Resolved(section).kind # "list" }

\* C4 as claimed: the error is recorded and none of the section's slides is
\* emitted, neither plain nor replicated, while the slides outside are.
C4_FailedSectionEmitsNothing ==
    pc = "planned" =>
        /\ \A section \in FailedSections :
              /\ ErrorRecordedOnce(ResolutionError(section))
              /\ Emitted(section.start_index, section.end_index) = <<>>
        /\ PassThroughOnce

\* C4 as the code has it: the error is recorded and each slide of the
\* section is emitted exactly once, in page order, as a plain page without
\* loop variable; the slides outside the section are still emitted.
C4_FailedSectionEmittedPlain ==
    pc = "planned" =>
        /\ \A section \in FailedSections :
              /\ ErrorRecordedOnce(ResolutionError(section))
              /\ Emitted(section.start_index, section.end_index)
                    = PlainPages(section.start_index, section.end_index)
        /\ PassThroughOnce

\* A failed section in a document that also has a pass-through slide.
C4_Witness ==
    /\ pc = "planned"
    /\ FailedSections # {}
    /\ \E j \in PageIndices : InNoSection(j)

(***************************************************************************)
(* C5: in render_pptx every replica of a loop section is rendered as a     *)
(* page of its own: the page rendered for the replica of element i shows   *)
(* element i in the shapes that referred to the loop variable, so no       *)
(* replica overwrites or pre-empts another.                                *)
(***************************************************************************)
C5_EachReplicaShowsItsElement ==
    pc = "returned" =>
        \A m \in 1..Len(slides_to_process) :
            LET slide_info == slides_to_process[m]
                page == prs[SlideOf(slide_info)]
            IN  slide_info.loop_var = "user" =>
                    \A q \in 1..Len(page) :
                        ~is_loop_start(page[q]) /\ ~is_loop_end(page[q]) =>
                            /\ page[q].placeholder # "user"
                            /\ page[q].shown # NoItem =>
                                   page[q].shown = slide_info.loop_item

(***************************************************************************)
(* The planner state before and after the slide scanned last.              *)
(***************************************************************************)
PlannerInit == Planner(FALSE, -1, NoName, NoName, <<>>, <<>>)

\* loops.py 86-144: the planner state after the first m slides of doc.
RECURSIVE FirstPass(_, _)
FirstPass(doc, m) ==
    IF m = 0 THEN PlannerInit
    ELSE ScanStep(FirstPass(doc, m - 1), doc[m], m - 1)

Scanned == pc = "scan" /\ i >= 1
Before == FirstPass(prs, i - 1)
LastPage == prs[i]

\* The errors the slide scanned last added to those of the state `before`.
NewErrors(before) == SubSeq(errors, Len(before.errors) + 1, Len(errors))
NewErrorMsgs(before) == { errors[q].msg : q \in (Len(before.errors) + 1)..Len(errors) }
ErrorsExtended(before) ==
    /\ Len(errors) >= Len(before.errors)
    /\ SubSeq(errors, 1, Len(before.errors)) = before.errors
    /\ \A q \in (Len(before.errors) + 1)..Len(errors) : errors[q].slide = i

StructureErrors ==
    { "endloop_without_start", "multiple_loop_start", "both_start_and_end",
      "nested_loops" }

OpenLoopUnchanged(before) ==
    /\ in_loop = before.in_loop
    /\ loop_start_index = before.loop_start_index
    /\ loop_variable = before.loop_variable
    /\ loop_collection = before.loop_collection

\* The slide with its loop directives taken away.
Unmarked(page) == [q \in 1..Len(page) |-> [page[q] EXCEPT !.start = <<>>, !.end = FALSE]]

\* The slides at which a start marker met an open loop.
NestedStarts ==
    { j \in 1..Len(prs) : HasStart(prs[j]) /\ FirstPass(prs, j - 1).in_loop }

\* Sections and expansion are those of the document without the markers of slide j.
AsIfUnmarked(j) ==
    LET doc == [prs EXCEPT ![j] = Unmarked(prs[j])]
        sections == FirstPass(doc, Len(doc)).loop_sections
    IN  /\ sections = loop_sections
        /\ ExpandFrom(0, Len(doc), sections, context, <<>>, 1, <<>>).out
              = slides_to_process

(***************************************************************************)
(* C6: a slide with a loop-start marker met while IN_LOOP records an       *)
(* error, leaves the planner IN_LOOP with the outer loop's start index,    *)
(* variable and collection, and the outer loop's section and expansion     *)
(* are those of the document in which that slide carries no marker.        *)
(***************************************************************************)
\* C6 as claimed: the error is always the 'nested loops' one.
C6_NestedStartRecordsNestedError ==
    /\ (Scanned /\ HasStart(LastPage)) =>
          LET before == Before
          IN  before.in_loop =>
                  /\ ErrorsExtended(before)
                  /\ "nested_loops" \in NewErrorMsgs(before)
                  /\ in_loop /\ OpenLoopUnchanged(before)
                  /\ loop_sections = before.loop_sections
    /\ pc = "planned" => \A j \in NestedStarts : AsIfUnmarked(j)

\* C6 as the code has it: the error is 'nested loops' when the slide carries
\* one start marker and no end marker, 'multiple loop start' when it carries
\* several start markers, and otherwise 'both start and end'.
C6_NestedStartRejected ==
    /\ (Scanned /\ HasStart(LastPage)) =>
          LET before == Before
          IN  before.in_loop =>
                  /\ ErrorsExtended(before)
                  /\ NewErrorMsgs(before) =
                        { IF StartCount(LastPage) > 1 THEN "multiple_loop_start"
                          ELSE IF HasEnd(LastPage) THEN "both_start_and_end"
                          ELSE "nested_loops" }
                  /\ Len(NewErrors(before)) = 1
                  /\ in_loop /\ OpenLoopUnchanged(before)
                  /\ loop_sections = before.loop_sections
    /\ pc = "planned" => \A j \in NestedStarts : AsIfUnmarked(j)

\* A loop over one collection met the start marker of another, was closed
\* later and was expanded.
C6_Witness ==
    /\ pc = "planned"
    /\ \E j \in NestedStarts :
          /\ StartCount(prs[j]) = 1 /\ ~HasEnd(prs[j])
          /\ \E section \in SectionsNow :
                /\ InSection(j - 1, section)
                /\ section.collection # extract_loop_directive(prs[j][1])[2]
                /\ Resolved(section).kind = "list"
                /\ Len(Resolved(section).items) >= 1

(***************************************************************************)
(* C7: when the scan ends IN_LOOP, exactly one 'unterminated loop' error   *)
(* is recorded, the open loop gets no section, and every slide outside the *)
(* closed sections is still emitted exactly once as an ordinary page.      *)
(***************************************************************************)
C7_UnterminatedLoop ==
    (pc \in {"expand", "planned"} /\ in_loop) =>
        /\ Cardinality(ErrorsWith("loop_never_closed")) = 1
        /\ \A section \in SectionsNow : section.end_index < loop_start_index
        /\ InNoSection(loop_start_index)
        /\ pc = "planned" => PassThroughOnce

\* A document with a closed section followed by a loop that is never closed.
C7_Witness ==
    /\ pc = "planned"
    /\ in_loop
    /\ loop_sections # <<>>
    /\ loop_start_index < Len(prs) - 1

(***************************************************************************)
(* C8: a slide that carries both a loop-start and a loop-end marker        *)
(* records a loop-structure error and leaves the planner as it was         *)
(* (OUTSIDE or IN_LOOP, start index, variable, collection, closed          *)
(* sections), in either planner state and whatever the order of the two    *)
(* markers.                                                                *)
(***************************************************************************)
C8_BothMarkersRejected ==
    (Scanned /\ HasStart(LastPage) /\ HasEnd(LastPage)) =>
        LET before == Before
        IN  /\ ErrorsExtended(before)
            /\ Len(NewErrors(before)) >= 1
            /\ NewErrorMsgs(before) \subseteq StructureErrors
            /\ OpenLoopUnchanged(before)
            /\ loop_sections = before.loop_sections

\* An open loop met a slide with the end marker before the start marker.
C8_Witness ==
    /\ Scanned
    /\ Before.in_loop
    /\ is_loop_end(LastPage[1])
    /\ HasStart(LastPage)

(***************************************************************************)
(* C9: a slide that carries more than one loop-start marker, or more than  *)
(* one loop-end marker, records a loop-structure error for that slide, in  *)
(* either planner state.                                                   *)
(***************************************************************************)
C9_DuplicateMarkersRejected ==
    (Scanned /\ (StartCount(LastPage) > 1 \/ EndCount(LastPage) > 1)) =>
        LET before == Before
        IN  /\ ErrorsExtended(before)
            /\ Len(NewErrors(before)) >= 1
            /\ NewErrorMsgs(before) \subseteq StructureErrors

(***************************************************************************)
(* C10: what a slide with a loop-end marker does to the planner.           *)
(***************************************************************************)
ClosedSection(before) ==
    Section(before.loop_start_index, i - 1, before.loop_variable, before.loop_collection)

\* C10 as claimed: while OUTSIDE it records 'end without start', creates no
\* section and stays OUTSIDE; while IN_LOOP it closes exactly one section
\* from the recorded start index to the current slide and returns OUTSIDE.
C10_EndMarker ==
    (Scanned /\ HasEnd(LastPage)) =>
        LET before == Before
        IN  /\ ErrorsExtended(before)
            /\ ~before.in_loop =>
                  /\ "endloop_without_start" \in NewErrorMsgs(before)
                  /\ loop_sections = before.loop_sections
                  /\ ~in_loop
            /\ before.in_loop =>
                  /\ loop_sections = Append(before.loop_sections, ClosedSection(before))
                  /\ ~in_loop

\* C10 as the code has it: while OUTSIDE the slide creates no section and
\* leaves the planner OUTSIDE, and 'end without start' is recorded once for
\* each end marker that no start marker of the slide precedes; while IN_LOOP
\* a slide with end markers and no start marker closes exactly one section
\* from the recorded start index to the current slide and returns OUTSIDE.
C10_EndMarkerWithoutStart ==
    (Scanned /\ HasEnd(LastPage)) =>
        LET before == Before
            new == NewErrors(before)
        IN  /\ ErrorsExtended(before)
            /\ ~before.in_loop =>
                  /\ Cardinality({ q \in 1..Len(new) :
                                      new[q].msg = "endloop_without_start" })
                        = Cardinality(UnprecededEnds(LastPage))
                  /\ loop_sections = before.loop_sections
                  /\ ~in_loop
            /\ (before.in_loop /\ ~HasStart(LastPage)) =>
                  /\ new = <<>>
                  /\ loop_sections = Append(before.loop_sections, ClosedSection(before))
                  /\ ~in_loop
                  /\ loop_start_index = -1

\* An open loop was closed by a slide with an end marker, after an earlier
\* section had been closed.
C10_Witness ==
    /\ Scanned
    /\ Before.in_loop
    /\ HasEnd(LastPage) /\ ~HasStart(LastPage)
    /\ Len(loop_sections) = 2

(***************************************************************************)
(* C11: what a loop-structure error does to the output of process_loops.   *)
(***************************************************************************)
\* The slides (0-based) that recorded a loop-structure error.
ErrorPages ==
    { errors[q].slide - 1 : q \in { r \in 1..Len(errors) : errors[r].msg \in StructureErrors } }

\* The slides of the loop that was open when the scan ended.
UnterminatedPages == IF in_loop THEN loop_start_index..(Len(prs) - 1) ELSE {}

\* The slides of the sections a loop-structure error affects: the closed
\* sections that hold a slide with such an error, and the unterminated loop.
AffectedPages ==
    UnterminatedPages
    \cup { j \in PageIndices :
             \E section \in SectionsNow :
                 InSection(j, section) /\ \E k \in ErrorPages : InSection(k, section) }

\* The number of work items a slide has when no error removes it: one
\* outside the closed sections and in a section whose collection cannot be
\* used, one per element in a section that is expanded.
Copies(j) ==
    IF InNoSection(j) THEN 1
    ELSE LET section == CHOOSE sec \in SectionsNow : InSection(j, sec)
         IN  IF Resolved(section).kind = "list" THEN Len(Resolved(section).items)
             ELSE 1

\* C11 as claimed: the slides of an affected section are neither emitted
\* nor expanded, and every other slide is still emitted.
C11_ErrorSectionSkipped ==
    pc = "planned" =>
        \A j \in PageIndices :
            IF j \in AffectedPages
            THEN PositionsOf(j) = {}
            ELSE Cardinality(PositionsOf(j)) = Copies(j)

\* C11 as the code has it: a loop-structure error removes no slide from the
\* output.  A slide outside the closed sections is emitted once as a plain
\* page, also when it recorded the error or belongs to the unterminated
\* loop; a closed section is expanded, also when it holds a slide that
\* recorded a nested-loop error.
C11_StructureErrorSkipsNothing ==
    pc = "planned" =>
        /\ PassThroughOnce
        /\ \A j \in PageIndices : Cardinality(PositionsOf(j)) = Copies(j)
        /\ \A section \in SectionsNow :
              Resolved(section).kind = "list" =>
                  Emitted(section.start_index, section.end_index)
                      = Replicas(section.start_index, section.end_index,
                                 section.variable, Resolved(section).items)
        /\ UnterminatedPages \cap { j \in PageIndices : ~InNoSection(j) } = {}

\* An expanded section that holds a nested start marker, followed by a loop
\* that is never closed.
C11_Witness ==
    /\ pc = "planned"
    /\ in_loop
    /\ \E k \in ErrorPages : \E section \in SectionsNow :
          /\ InSection(k, section)
          /\ Len(Emitted(section.start_index, section.end_index)) >= 2

(***************************************************************************)
(* C12: the sections recorded by the first pass are index ranges within    *)
(* the document, with start_index <= end_index, recorded in increasing     *)
(* order and pairwise disjoint: no slide belongs to two sections.          *)
(***************************************************************************)
C12_SectionsDisjointOrdered ==
    /\ \A q \in 1..Len(loop_sections) :
          /\ 0 <= loop_sections[q].start_index
          /\ loop_sections[q].start_index <= loop_sections[q].end_index
          /\ loop_sections[q].end_index < Len(prs)
    /\ \A q, r \in 1..Len(loop_sections) :
          q < r => loop_sections[q].end_index < loop_sections[r].start_index
    /\ \A j \in PageIndices :
          Cardinality({ q \in 1..Len(loop_sections) : InSection(j, loop_sections[q]) }) <= 1

\* The first pass ended with two sections recorded.
C12_Witness ==
    /\ pc = "expand"
    /\ Len(loop_sections) = 2

(***************************************************************************)
(* Vocabulary of the properties of the templating core.                    *)
(***************************************************************************)
Enforcing == check_permissions /\ request_user # NoUser

\* The resolved value of the only placeholder of the text.
TagValue == text.tags[1]

\* The permission checks in use: enforce_permissions lets every object
\* without _meta pass, process_text asks has_view_permission of core.py.
PassesEnforce(obj) == ~is_django_object(obj) \/ has_view_permission(obj, request_user)
PassesCore(obj) == core_has_view_permission(obj, request_user)

PassingIds(objs, Passes(_)) == { k \in 1..Len(objs) : Passes(objs[k]) }

\* `kept` holds exactly the elements of `objs` at the positions `ids`, in
\* their original relative order (the id of an element is its position).
KeepsInOrder(kept, objs, ids) ==
    /\ Len(kept) = Cardinality(ids)
    /\ \A q \in 1..Len(kept) : kept[q].id \in ids /\ kept[q] = objs[kept[q].id]
    /\ \A q1, q2 \in 1..Len(kept) : q1 < q2 => kept[q1].id < kept[q2].id

\* The objects whose string form a string shows, in order.
ShownObjs(string) ==
    LET isStr(piece) == piece[1] = "str"
        strs == SelectSeq(string, isStr)
    IN  [q \in 1..Len(strs) |-> Obj(strs[q][2], strs[q][3])]

\* The objects a returned string or list of strings shows, in order.
ReturnedObjs ==
    IF returned.form = "list"
    THEN [q \in 1..Len(returned.out) |-> ShownObjs(returned.out[q])[1]]
    ELSE ShownObjs(returned.out)

(***************************************************************************)
(* C13: an error of one placeholder does not stop the processing of its    *)
(* siblings: process_text gets to every placeholder of a mixed text, and   *)
(* the errors of all failing placeholders are recorded.                    *)
(***************************************************************************)
C13_SiblingPlaceholdersProcessed ==
    (pc = "processed" /\ ~text.pure /\ mode = "normal"
        /\ \A k \in 1..Len(text.tags) : text.tags[k].type # "list") =>
        returned.replaced = Len(text.tags)

(***************************************************************************)
(* C14: of a list of n values of which k fail the permission check, the    *)
(* enforcement keeps exactly the n - k passing elements in their original  *)
(* order, and records exactly one error when k > 0 and none when k = 0.    *)
(***************************************************************************)
C14_ListFiltered ==
    /\ (pc = "enforced" /\ Enforcing /\ TagValue.type = "list") =>
          LET passing == PassingIds(TagValue.items, PassesEnforce)
          IN  /\ returned.out.type = "list"
              /\ KeepsInOrder(returned.out.items, TagValue.items, passing)
              /\ Len(errors) = IF Cardinality(passing) < Len(TagValue.items) THEN 1 ELSE 0
    /\ (pc = "processed" /\ Enforcing /\ text.pure /\ TagValue.type = "list") =>
          LET passing == PassingIds(TagValue.items, PassesCore)
          IN  /\ returned.raised = "none"
              /\ KeepsInOrder(ReturnedObjs, TagValue.items, passing)
              /\ Len(errors) = IF Cardinality(passing) < Len(TagValue.items) THEN 1 ELSE 0

\* enforce_permissions kept one element of a list and rejected another.
C14_Witness ==
    /\ pc = "enforced"
    /\ Enforcing
    /\ TagValue.type = "list"
    /\ Len(TagValue.items) >= 2
    /\ Len(returned.out.items) = Len(TagValue.items) - 1
    /\ Len(errors) = 1

(***************************************************************************)
(* C15: enforce_permissions on a single value that fails the permission    *)
(* check raises PermissionDenied by default, and the denied value is not   *)
(* returned.                                                               *)
(***************************************************************************)
C15_ScalarDenialRaises ==
    (pc = "enforced" /\ Enforcing /\ TagValue.type = "scalar"
        /\ ~PassesEnforce(TagValue.items[1])) =>
        /\ returned.raised = "PermissionDenied"
        /\ returned.out # TagValue

(***************************************************************************)
(* C16: with a user supplied, a value without _meta always passes the      *)
(* permission check: neither enforce_permissions nor process_text records  *)
(* an error for it, removes it from a list or replaces it by an empty      *)
(* result.                                                                 *)
(***************************************************************************)
C16_PlainValuesPass ==
    (pc \in { "enforced", "processed" } /\ request_user # NoUser
        /\ \A k \in 1..Len(text.tags) :
              /\ text.tags[k].type = "scalar"
              /\ ~is_django_object(text.tags[k].items[1])) =>
        /\ errors = <<>>
        /\ pc = "enforced" => returned.out = TagValue
        /\ (pc = "processed" /\ returned.form = "value") => returned.out = TagValue.items[1]

(***************************************************************************)
(* C17: without a user, or with permission checking switched off, the      *)
(* enforcement returns the resolved value unchanged and records no error,  *)
(* also for values the permission check would reject.                      *)
(***************************************************************************)
C17_NoCheckNoChange ==
    ~Enforcing =>
        /\ pc = "enforced" => returned.out = TagValue /\ errors = <<>>
        /\ pc = "processed" =>
              /\ errors = <<>>
              /\ (text.pure /\ TagValue.type = "list") =>
                    /\ returned.raised = "none"
                    /\ ReturnedObjs = TagValue.items
              /\ (text.pure /\ TagValue.type = "scalar" /\ mode = "normal") =>
                    returned.out = TagValue.items[1]
              /\ (text.pure /\ TagValue.type = "scalar" /\ mode = "table") =>
                    ReturnedObjs = TagValue.items
              /\ (~text.pure /\ returned.raised = "none" /\ Len(text.tags) >= 1
                    /\ returned.form = "string") =>
                    ReturnedObjs = [k \in 1..Len(text.tags) |-> text.tags[k].items[1]]

\* A user was supplied, checking was switched off, and a list with an
\* element the check would reject came back whole.
C17_Witness ==
    /\ pc = "enforced"
    /\ request_user # NoUser
    /\ ~check_permissions
    /\ TagValue.type = "list"
    /\ \E k \in 1..Len(TagValue.items) : ~PassesEnforce(TagValue.items[k])
    /\ returned.out = TagValue

(***************************************************************************)
(* C18: the core never mutates what the caller passed in: no step of       *)
(* render_pptx changes the context, and no step of compose_pptx changes    *)
(* the global context or a slide specification.                            *)
(***************************************************************************)
C18_CallerDataNeverMutated ==
    [][context' = context /\ global_context' = global_context /\ slides' = slides]_vars

(***************************************************************************)
(* C19: process_text in normal mode on mixed text substitutes every        *)
(* placeholder and joins a list value with the delimiter; it never raises  *)
(* because a value is a list.                                              *)
(***************************************************************************)
C19_MixedListJoined ==
    (pc = "processed" /\ ~text.pure /\ mode = "normal"
        /\ \A k \in 1..Len(text.tags) : text.tags[k].type # "raise") =>
        /\ returned.raised = "none"
        /\ returned.form = "string"

(***************************************************************************)
(* C20: process_text in table mode on mixed text with one placeholder that *)
(* resolves to a list returns one string per permitted element, in element *)
(* order, each the text with the placeholder replaced by the string form   *)
(* of the element; mixed text with more than one placeholder fails with a  *)
(* ValueError.                                                             *)
(***************************************************************************)
C20_TableBroadcast ==
    (pc = "processed" /\ ~text.pure /\ mode = "table") =>
        /\ Len(text.tags) > 1 => returned.raised = "ValueError"
        /\ (Len(text.tags) = 1 /\ TagValue.type = "list") =>
              LET passing == IF Enforcing THEN PassingIds(TagValue.items, PassesCore)
                             ELSE 1..Len(TagValue.items)
              IN  /\ returned.raised = "none"
                  /\ returned.form = "list"
                  /\ KeepsInOrder(ReturnedObjs, TagValue.items, passing)
                  /\ \A q \in 1..Len(returned.out) :
                        /\ Len(returned.out[q]) = 3
                        /\ returned.out[q][1] = Lit(0)[1]
                        /\ returned.out[q][3] = Lit(1)[1]

\* A list of two elements was broadcast into two strings.
C20_Witness ==
    /\ pc = "processed"
    /\ ~text.pure
    /\ mode = "table"
    /\ Len(text.tags) = 1
    /\ TagValue.type = "list"
    /\ Len(returned.out) = 2
    /\ returned.out[1] # returned.out[2]

(***************************************************************************)
(* Vocabulary of the properties of the expression resolver.                *)
(***************************************************************************)
WellFormed == \A k \in 1..Len(expr) : expr[k].form = "ok"

StartsWithNow == expr[1] = Seg(<< "now" >>)

\* The segment the loop of resolve_tag_expression is about to resolve.
AtSegment == pc = "segments" /\ position <= Len(expr)

\* parser.py 82-91 as a function: the segments from k on resolved against cur.
RECURSIVE ResolveRest(_, _, _)
ResolveRest(cur, segments, k) ==
    IF k > Len(segments) THEN Out("none", cur)
    ELSE LET r == resolve_segment(cur, segments[k], Work(0, 0))
         IN  IF r.raised # "none" THEN Out(r.raised, None)
             ELSE IF r.value = None THEN Out("none", EmptyStr)
             ELSE ResolveRest(r.value, segments, k + 1)

\* The results of resolving a segment against each item, concatenated with
\* list results flattened one level.
RECURSIVE FlattenOnce(_, _)
FlattenOnce(results, k) ==
    IF k > Len(results) THEN <<>>
    ELSE (IF results[k].value.type = "list" THEN results[k].value.items
          ELSE << results[k].value >>) \o FlattenOnce(results, k + 1)

ItemsOf(value) == IF value.type = "list" THEN value.items ELSE << value >>

Range(seq) == { seq[k] : k \in 1..Len(seq) }

(***************************************************************************)
(* C21: an expression whose first segment names a key the context lacks    *)
(* fails with MissingData; it never yields None or an empty string.        *)
(***************************************************************************)
C21_MissingAttributeFails ==
    (pc = "resolved" /\ WellFormed /\ ~StartsWithNow
        /\ Fetch(root, expr[1].attr[1]) = None) =>
        outcome.raised = "MissingData"

(***************************************************************************)
(* C22: a segment that names a callable attribute yields the result of     *)
(* invoking it: with no arguments when the segment has no parenthesised    *)
(* list, with exactly the parsed arguments when it has one.                *)
(***************************************************************************)
C22_CallableInvoked ==
    (AtSegment /\ current.type # "list" /\ expr[position].form = "ok"
        /\ Len(expr[position].attr) = 1
        /\ Fetch(current, expr[position].attr[1]).type = "callable") =>
        LET segment == expr[position]
            expected == Invoke(Fetch(current, segment.attr[1]),
                               IF segment.called THEN parse_callable_args(segment.args)
                               ELSE <<>>)
            r == resolve_segment(current, segment, work)
        IN  expected.ok => r.raised = "none" /\ r.value = expected.value

(***************************************************************************)
(* C23: when the first segment is "now", the remaining segments are        *)
(* resolved against the current timestamp.                                 *)
(***************************************************************************)
C23_NowThenRemainingSegments ==
    (pc = "resolved" /\ WellFormed /\ StartsWithNow) =>
        outcome = ResolveRest(Timestamp, expr, 2)

(***************************************************************************)
(* C24: an expression with a malformed segment (other than the empty       *)
(* expression) fails with BadTag in every context, wherever the segment    *)
(* is, before any attribute lookup and any invocation of a callable.       *)
(***************************************************************************)
C24_MalformedFailsBeforeLookup ==
    (pc = "resolved" /\ ~WellFormed /\ expr # << Malformed("empty") >>) =>
        /\ outcome.raised = "BadTag"
        /\ work = Work(0, 0)

C27_DeckFitsEveryGraph ==
    (pc = "returned" /\ saved = 1 /\ graphs # <<>>) =>
        /\ slide_width >= min_width
        /\ slide_height >= min_height
        /\ \A g \in 1..Len(graphs) : \A n \in 1..Len(graphs[g].nodes) :
              /\ slide_width >= graphs[g].nodes[n].x + node_width + margin
              /\ slide_height >= graphs[g].nodes[n].y + node_height + margin

\* The string form of obj appears in what the call returned.
ShowsObj(obj) ==
    IF returned.form = "value" THEN returned.out = obj
    ELSE IF returned.form = "string"
    THEN \E p \in 1..Len(returned.out) : << returned.out[p] >> = Str(obj)
    ELSE IF returned.form = "list"
    THEN \E q \in 1..Len(returned.out) :
             \E p \in 1..Len(returned.out[q]) : << returned.out[q][p] >> = Str(obj)
    ELSE FALSE

(***************************************************************************)
(* C28: when process_text records a permission-denied error for a scalar   *)
(* placeholder value, the string form of that value does not appear in     *)
(* the returned text, in pure and mixed text, in normal and table mode.    *)
(***************************************************************************)
C28_DeniedScalarNotShown ==
    (pc = "processed" /\ returned.raised = "none") =>
        \A k \in 1..Len(text.tags) :
            (/\ text.tags[k].type = "scalar"
             /\ \E q \in 1..Len(errors) : errors[q] = Denied(k)) =>
                ~ShowsObj(text.tags[k].items[1])

(***************************************************************************)
(* C29: text without any placeholder is returned unchanged by              *)
(* process_text, without error, in normal and in table mode.               *)
(***************************************************************************)
C29_PlainTextUnchanged ==
    (pc = "processed" /\ ~text.pure /\ text.tags = <<>>) =>
        /\ returned.raised = "none"
        /\ returned.out = Lit(0)
        /\ errors = <<>>

(***************************************************************************)
(* C30: in the list process_loops returns, the k-th work item has          *)
(* slide_number = k, whether it is a pass-through page, a replica of a     *)
(* loop section or a page of a section whose collection failed; the next   *)
(* free number is the length of the list plus one.                         *)
(***************************************************************************)
C30_SlideNumbersConsecutive ==
    pc = "planned" =>
        /\ \A k \in 1..Len(slides_to_process) : slides_to_process[k].slide_number = k
        /\ current_slide_number = Len(slides_to_process) + 1

\* The returned list holds the pages of a section whose collection failed
\* and, after them, a replica of another section.
C30_Witness ==
    /\ pc = "planned"
    /\ \E q \in 1..Len(errors) :
          errors[q].msg \in { "failed_to_resolve_collection", "collection_not_found",
                              "not_iterable" }
    /\ \E k \in 2..Len(slides_to_process) :
          /\ slides_to_process[k].loop_var # NoName
          /\ slides_to_process[k - 1].loop_var = NoName

====
